---- MODULE Spec2Model ----
(***************************************************************************)
(* A model of the jlox-rs tree-walking interpreter: the resolver pass that *)
(* fills the interpreter's side table of scope depths, and the evaluator   *)
(* with its environment chain, function calls, classes and instances.      *)
(* The evaluator is a machine over an explicit continuation stack: every   *)
(* frame is one suspended Rust call waiting for a nested evaluate /        *)
(* evaluate_stmt / execute_block / call to return.                         *)
(***************************************************************************)
EXTENDS Integers, Sequences, FiniteSets, TLC

(***************************************************************************)
(* Bounds of the model.                                                    *)
(***************************************************************************)
\* the number of environments one run may allocate
MaxEnvs == 9
\* the number of instance objects one run may allocate
MaxInsts == 5
\* the number of characters of a source text handed to the scanner
MaxSource == 3
\* the number of tokens (before Eof) of a short token list handed to the parser
MaxTokens == 3

(***************************************************************************)
(* Tokens, literals and runtime values (object.rs).                        *)
(***************************************************************************)
Tok(lexeme, line) == [lexeme |-> lexeme, line |-> line]

Nil == [t |-> "Nil"]
Boolean(b) == [t |-> "Boolean", b |-> b]
Number(n) == [t |-> "Number", n |-> n]
String(s) == [t |-> "String", s |-> s]
\* the native function clock
ClockObject == [t |-> "Clock"]
\* Object::Instance: a reference to a shared, mutable LoxInstance
InstanceObject(ref) == [t |-> "Instance", ref |-> ref]

\* Object::is_truthy
is_truthy(v) ==
    CASE v.t = "Boolean" -> v.b
      [] v.t = "Nil" -> FALSE
      [] OTHER -> TRUE

\* impl PartialEq for Object
ObjectEq(left, right) ==
    CASE left.t = "Boolean" /\ right.t = "Boolean" -> left.b = right.b
      [] left.t = "Number" /\ right.t = "Number" -> left.n = right.n
      [] left.t = "String" /\ right.t = "String" -> left.s = right.s
      [] left.t = "Nil" /\ right.t = "Nil" -> TRUE
      [] OTHER -> FALSE

\* the strings the programs compare, in the order of String::cmp
Collation == <<"a", "b">>
\* impl PartialOrd for Object: "Less", "Equal", "Greater" or "None"
partial_cmp(left, right) ==
    CASE left.t = "Number" /\ right.t = "Number" ->
            IF left.n < right.n THEN "Less"
            ELSE IF left.n = right.n THEN "Equal" ELSE "Greater"
      [] left.t = "String" /\ right.t = "String" ->
            LET at(s) == CHOOSE i \in DOMAIN Collation : Collation[i] = s
            IN  IF at(left.s) < at(right.s) THEN "Less"
                ELSE IF left.s = right.s THEN "Equal" ELSE "Greater"
      [] OTHER -> "None"

\* Ordering::is_gt / is_ge / is_lt / is_le for the comparison operators
OrderingTest(token_type, ordering) ==
    CASE token_type = "Greater" -> ordering = "Greater"
      [] token_type = "GreaterEqual" -> ordering \in {"Greater", "Equal"}
      [] token_type = "Less" -> ordering = "Less"
      [] token_type = "LessEqual" -> ordering \in {"Less", "Equal"}

\* a map with no key (an empty HashMap)
EmptyMap == [x \in {} |-> x]

(***************************************************************************)
(* The syntax tree (parser.rs).  Every expression carries `id`, the        *)
(* position of the occurrence in the program text; `id` is not a field of  *)
(* the Rust Expr, and Key below is the expression as the Rust code hashes  *)
(* and compares it.                                                        *)
(***************************************************************************)
NoExpr == [t |-> "None"]
NoStmt == [t |-> "None"]

ExprLiteral(id, v) == [t |-> "Literal", id |-> id, value |-> v]
ExprVariable(id, lexeme, line) ==
    [t |-> "Variable", id |-> id, name |-> Tok(lexeme, line)]
ExprAssign(id, lexeme, line, value) ==
    [t |-> "Assign", id |-> id, name |-> Tok(lexeme, line), value |-> value]
ExprCall(id, callee, line, arguments) ==
    [t |-> "Call", id |-> id, callee |-> callee, paren |-> Tok(")", line),
     arguments |-> arguments]
ExprGet(id, object, lexeme, line) ==
    [t |-> "Get", id |-> id, object |-> object, name |-> Tok(lexeme, line)]
ExprSet(id, object, lexeme, line, value) ==
    [t |-> "Set", id |-> id, object |-> object, name |-> Tok(lexeme, line),
     value |-> value]
ExprThis(id, line) == [t |-> "This", id |-> id, name |-> Tok("this", line)]
\* the token of an operator
Operator(token_type, line) == [token_type |-> token_type, line |-> line]
ExprLogical(id, left, token_type, line, right) ==
    [t |-> "Logical", id |-> id, left |-> left,
     operator |-> Operator(token_type, line), right |-> right]
ExprBinary(id, left, token_type, line, right) ==
    [t |-> "Binary", id |-> id, left |-> left,
     operator |-> Operator(token_type, line), right |-> right]
ExprGrouping(id, expr) == [t |-> "Grouping", id |-> id, expr |-> expr]
ExprUnary(id, token_type, line, right) ==
    [t |-> "Unary", id |-> id, operator |-> Operator(token_type, line),
     right |-> right]

StmtExpression(e) == [t |-> "Expression", expr |-> e]
StmtPrint(e) == [t |-> "Print", expr |-> e]
StmtVar(name, init) == [t |-> "Var", name |-> name, init |-> init]
StmtBlock(statements) == [t |-> "Block", statements |-> statements]
StmtIf(cond, then_branch, else_branch) ==
    [t |-> "If", cond |-> cond, then_branch |-> then_branch,
     else_branch |-> else_branch]
StmtWhile(cond, body) == [t |-> "While", cond |-> cond, body |-> body]
StmtFunction(name, params, body) ==
    [t |-> "Function", name |-> name, params |-> params, body |-> body]
StmtReturn(line, value) ==
    [t |-> "Return", keyword |-> Tok("return", line), value |-> value]
StmtClass(name, methods) == [t |-> "Class", name |-> name, methods |-> methods]

RECURSIVE Key(_)
\* The key of the HashMap<Expr, usize>: the expression compared by structure
Key(e) ==
    CASE e.t = "Literal" -> [t |-> "Literal", value |-> e.value]
      [] e.t = "Variable" -> [t |-> "Variable", name |-> e.name]
      [] e.t = "This" -> [t |-> "This", name |-> e.name]
      [] e.t = "Assign" ->
            [t |-> "Assign", name |-> e.name, value |-> Key(e.value)]
      [] e.t = "Call" ->
            [t |-> "Call", callee |-> Key(e.callee), paren |-> e.paren,
             arguments |-> [i \in DOMAIN e.arguments |-> Key(e.arguments[i])]]
      [] e.t = "Get" ->
            [t |-> "Get", object |-> Key(e.object), name |-> e.name]
      [] e.t = "Set" ->
            [t |-> "Set", object |-> Key(e.object), name |-> e.name,
             value |-> Key(e.value)]
      [] e.t \in {"Logical", "Binary"} ->
            [t |-> e.t, left |-> Key(e.left), operator |-> e.operator,
             right |-> Key(e.right)]
      [] e.t = "Grouping" -> [t |-> "Grouping", expr |-> Key(e.expr)]
      [] e.t = "Unary" ->
            [t |-> "Unary", operator |-> e.operator, right |-> Key(e.right)]

RECURSIVE ExprsOfExpr(_), ExprsOfStmt(_), ExprsOfStmts(_)
\* every expression occurrence below e, e included
ExprsOfExpr(e) ==
    CASE e.t = "None" -> {}
      [] e.t \in {"Literal", "Variable", "This"} -> {e}
      [] e.t = "Assign" -> {e} \cup ExprsOfExpr(e.value)
      [] e.t = "Call" ->
            {e} \cup ExprsOfExpr(e.callee)
                \cup UNION {ExprsOfExpr(e.arguments[i]) : i \in DOMAIN e.arguments}
      [] e.t = "Get" -> {e} \cup ExprsOfExpr(e.object)
      [] e.t = "Set" -> {e} \cup ExprsOfExpr(e.object) \cup ExprsOfExpr(e.value)
      [] e.t \in {"Logical", "Binary"} ->
            {e} \cup ExprsOfExpr(e.left) \cup ExprsOfExpr(e.right)
      [] e.t = "Grouping" -> {e} \cup ExprsOfExpr(e.expr)
      [] e.t = "Unary" -> {e} \cup ExprsOfExpr(e.right)

ExprsOfStmts(ss) == UNION {ExprsOfStmt(ss[i]) : i \in DOMAIN ss}

ExprsOfStmt(s) ==
    CASE s.t = "None" -> {}
      [] s.t \in {"Expression", "Print"} -> ExprsOfExpr(s.expr)
      [] s.t = "Var" -> ExprsOfExpr(s.init)
      [] s.t = "Block" -> ExprsOfStmts(s.statements)
      [] s.t = "If" ->
            ExprsOfExpr(s.cond) \cup ExprsOfStmt(s.then_branch)
                \cup ExprsOfStmt(s.else_branch)
      [] s.t = "While" -> ExprsOfExpr(s.cond) \cup ExprsOfStmt(s.body)
      [] s.t = "Function" -> ExprsOfStmts(s.body)
      [] s.t = "Return" -> ExprsOfExpr(s.value)
      [] s.t = "Class" -> ExprsOfStmts(s.methods)

(***************************************************************************)
(* State.                                                                  *)
(***************************************************************************)
VARIABLES
    program,            \* the parsed program: a sequence of statements
    phase,              \* "resolve", "run" or "done": the driver's position
    rstack,             \* Resolver: the pending work of the recursive walk
    scopes,             \* Resolver.scopes
    current_function,   \* Resolver.current_function
    reported,           \* the static diagnostics printed so far
    locals,             \* Interpreter.locals
    envs,               \* the Rc<RefCell<Environment>> cells, by index
    insts,              \* the Rc<Object::Instance> cells, by index
    environment,        \* Interpreter.environment
    stack,              \* the suspended calls of the evaluator, innermost first
    ctl,                \* what the evaluator is doing or has just returned
    pc,                 \* index of the top-level statement being evaluated
    last,               \* the result of the last finished top-level statement
    output,             \* the lines printed
    exit_code,          \* how the run ended
    scanner,            \* the Scanner
    scan_result,        \* what Scanner::scan_tokens returned
    parser,             \* the Parser
    parsed,             \* Parser::parse: its `statements` so far
    parse_result        \* what Parser::parse returned

vars == <<program, phase, rstack, scopes, current_function, reported, locals,
          envs, insts, environment, stack, ctl, pc, last, output, exit_code,
          scanner, scan_result, parser, parsed, parse_result>>

rvars == <<rstack, scopes, current_function, reported, locals>>
ivars == <<envs, insts, environment, stack, ctl, pc, last, output>>
\* the front end: scanner and parser
svars == <<scanner, scan_result>>
pvars == <<parser, parsed, parse_result>>
fvars == <<svars, pvars>>

\* Interpreter.globals: the first environment allocated
globals == 1

(***************************************************************************)
(* Resolver (resolver.rs).                                                 *)
(***************************************************************************)
StmtTasks(ss) == [i \in DOMAIN ss |-> [k |-> "stmt", s |-> ss[i]]]
ExprTasks(es) == [i \in DOMAIN es |-> [k |-> "expr", e |-> es[i]]]
OptExprTask(e) == IF e.t = "None" THEN <<>> ELSE <<[k |-> "expr", e |-> e]>>
OptStmtTask(s) == IF s.t = "None" THEN <<>> ELSE <<[k |-> "stmt", s |-> s]>>

\* Resolver::begin_scope
begin_scope(sc) == Append(sc, EmptyMap)

\* an end_scope that pops nothing
end_scope_keeps(sc) == sc

\* Resolver::end_scope
end_scope(sc) == IF sc = <<>> THEN sc ELSE SubSeq(sc, 1, Len(sc) - 1)

\* Resolver::declare: the scopes afterwards
declare(sc, name) ==
    IF sc = <<>> THEN sc
    ELSE [sc EXCEPT ![Len(sc)] = (name :> FALSE) @@ @]

\* a declare that also takes offence at a name of an enclosing scope
declare_reports_shadowing(sc, name) ==
    IF \E i \in DOMAIN sc : name \in DOMAIN sc[i]
    THEN <<"Already a variable called '" \o name \o "' in this scope.">>
    ELSE <<>>

\* Resolver::declare: the diagnostic it prints
declare_reports(sc, name) ==
    IF sc # <<>> /\ name \in DOMAIN sc[Len(sc)]
    THEN <<"Already a variable called '" \o name \o "' in this scope.">>
    ELSE <<>>

\* Resolver::define
define(sc, name) ==
    IF sc = <<>> THEN sc
    ELSE [sc EXCEPT ![Len(sc)] = (name :> TRUE) @@ @]

RECURSIVE declare_params(_, _)
\* the loop over the parameters in Resolver::resolve_function
declare_params(sc, params) ==
    IF params = <<>> THEN sc
    ELSE declare_params(define(declare(sc, Head(params)), Head(params)),
                        Tail(params))

RECURSIVE params_reports(_, _)
params_reports(sc, params) ==
    IF params = <<>> THEN <<>>
    ELSE declare_reports(sc, Head(params))
           \o params_reports(define(declare(sc, Head(params)), Head(params)),
                             Tail(params))

\* Interpreter::resolve
InterpreterResolve(tbl, expr, depth) == (Key(expr) :> depth) @@ tbl

\* Resolver::resolve_local: the side table afterwards
resolve_local(sc, tbl, expr, name) ==
    LET found == {i \in DOMAIN sc : name.lexeme \in DOMAIN sc[i]}
    IN  IF found = {} THEN tbl
        ELSE LET i == CHOOSE j \in found : \A l \in found : l <= j
             IN  InterpreterResolve(tbl, expr, Len(sc) - i)

\* a resolver that never reports a return outside a function
ReturnNeverReported(cf) == FALSE

\* Resolver::resolve_statement, Stmt::Return: whether the error is printed
ReturnOutsideFunction(cf) == cf = "None"

\* a resolve_function that leaves the marker of the function it walked
StayInFunction(previous, current) == current

\* Resolver::resolve_function, the last mem::replace: the current_function
\* afterwards
LeaveFunction(previous, current) == previous

RTask == Head(rstack)
RIsStmt(kind) ==
    /\ phase = "resolve" /\ rstack # <<>>
    /\ RTask.k = "stmt" /\ RTask.s.t = kind
RIsExpr(kind) ==
    /\ phase = "resolve" /\ rstack # <<>>
    /\ RTask.k = "expr" /\ RTask.e.t = kind
RIsTask(kind) ==
    /\ phase = "resolve" /\ rstack # <<>> /\ RTask.k = kind

RUnchanged == UNCHANGED <<program, fvars, phase, exit_code, ivars>>

ResolveVar ==
    /\ RIsStmt("Var")
    /\ scopes' = declare(scopes, RTask.s.name)
    /\ reported' = reported \o declare_reports(scopes, RTask.s.name)
    /\ rstack' = OptExprTask(RTask.s.init)
                   \o <<[k |-> "define", name |-> RTask.s.name]>>
                   \o Tail(rstack)
    /\ UNCHANGED <<current_function, locals>>
    /\ RUnchanged

ResolveDefine ==
    /\ RIsTask("define")
    /\ scopes' = define(scopes, RTask.name)
    /\ rstack' = Tail(rstack)
    /\ UNCHANGED <<current_function, locals, reported>>
    /\ RUnchanged

ResolveBlock ==
    /\ RIsStmt("Block")
    /\ scopes' = begin_scope(scopes)
    /\ rstack' = StmtTasks(RTask.s.statements) \o <<[k |-> "end_scope"]>>
                   \o Tail(rstack)
    /\ UNCHANGED <<current_function, locals, reported>>
    /\ RUnchanged

ResolveEndScope ==
    /\ RIsTask("end_scope")
    /\ scopes' = end_scope(scopes)
    /\ rstack' = Tail(rstack)
    /\ UNCHANGED <<current_function, locals, reported>>
    /\ RUnchanged

ResolveClass ==
    /\ RIsStmt("Class")
    /\ scopes' = define(declare(scopes, RTask.s.name), RTask.s.name)
    /\ reported' = reported \o declare_reports(scopes, RTask.s.name)
    /\ rstack' = [i \in DOMAIN RTask.s.methods |->
                    [k |-> "function", params |-> RTask.s.methods[i].params,
                     body |-> RTask.s.methods[i].body, kind |-> "Method"]]
                   \o Tail(rstack)
    /\ UNCHANGED <<current_function, locals>>
    /\ RUnchanged

ResolveIf ==
    /\ RIsStmt("If")
    /\ rstack' = <<[k |-> "expr", e |-> RTask.s.cond],
                   [k |-> "stmt", s |-> RTask.s.then_branch]>>
                   \o OptStmtTask(RTask.s.else_branch) \o Tail(rstack)
    /\ UNCHANGED <<scopes, current_function, locals, reported>>
    /\ RUnchanged

ResolveExpression ==
    /\ RIsStmt("Expression")
    /\ rstack' = <<[k |-> "expr", e |-> RTask.s.expr]>> \o Tail(rstack)
    /\ UNCHANGED <<scopes, current_function, locals, reported>>
    /\ RUnchanged

ResolveFunctionStmt ==
    /\ RIsStmt("Function")
    /\ scopes' = define(declare(scopes, RTask.s.name), RTask.s.name)
    /\ reported' = reported \o declare_reports(scopes, RTask.s.name)
    /\ rstack' = <<[k |-> "function", params |-> RTask.s.params,
                    body |-> RTask.s.body, kind |-> "Function"]>>
                   \o Tail(rstack)
    /\ UNCHANGED <<current_function, locals>>
    /\ RUnchanged

\* Resolver::resolve_function up to the walk of the body
ResolveFunction ==
    /\ RIsTask("function")
    /\ current_function' = RTask.kind
    /\ scopes' = declare_params(begin_scope(scopes), RTask.params)
    /\ reported' = reported \o params_reports(begin_scope(scopes), RTask.params)
    /\ rstack' = StmtTasks(RTask.body)
                   \o <<[k |-> "end_function", previous |-> current_function]>>
                   \o Tail(rstack)
    /\ UNCHANGED locals
    /\ RUnchanged

\* Resolver::resolve_function after the walk of the body
ResolveEndFunction ==
    /\ RIsTask("end_function")
    /\ scopes' = end_scope(scopes)
    /\ current_function' = LeaveFunction(RTask.previous, current_function)
    /\ rstack' = Tail(rstack)
    /\ UNCHANGED <<locals, reported>>
    /\ RUnchanged

ResolvePrint ==
    /\ RIsStmt("Print")
    /\ rstack' = <<[k |-> "expr", e |-> RTask.s.expr]>> \o Tail(rstack)
    /\ UNCHANGED <<scopes, current_function, locals, reported>>
    /\ RUnchanged

ResolveReturn ==
    /\ RIsStmt("Return")
    /\ reported' = IF ReturnOutsideFunction(current_function)
                   THEN Append(reported, "Can't return from top-level code.")
                   ELSE reported
    /\ rstack' = OptExprTask(RTask.s.value) \o Tail(rstack)
    /\ UNCHANGED <<scopes, current_function, locals>>
    /\ RUnchanged

ResolveWhile ==
    /\ RIsStmt("While")
    /\ rstack' = <<[k |-> "expr", e |-> RTask.s.cond],
                   [k |-> "stmt", s |-> RTask.s.body]>> \o Tail(rstack)
    /\ UNCHANGED <<scopes, current_function, locals, reported>>
    /\ RUnchanged

ResolveCall ==
    /\ RIsExpr("Call")
    /\ rstack' = <<[k |-> "expr", e |-> RTask.e.callee]>>
                   \o ExprTasks(RTask.e.arguments) \o Tail(rstack)
    /\ UNCHANGED <<scopes, current_function, locals, reported>>
    /\ RUnchanged

ResolveLiteral ==
    /\ RIsExpr("Literal")
    /\ rstack' = Tail(rstack)
    /\ UNCHANGED <<scopes, current_function, locals, reported>>
    /\ RUnchanged

ResolveVariable ==
    /\ RIsExpr("Variable")
    /\ reported' =
         IF /\ scopes # <<>>
            /\ RTask.e.name.lexeme \in DOMAIN scopes[Len(scopes)]
            /\ scopes[Len(scopes)][RTask.e.name.lexeme] = FALSE
         THEN Append(reported, "Can't read local variable in its own initializer.")
         ELSE reported
    /\ locals' = resolve_local(scopes, locals, RTask.e, RTask.e.name)
    /\ rstack' = Tail(rstack)
    /\ UNCHANGED <<scopes, current_function>>
    /\ RUnchanged

\* Expr::Assign: resolve the value, then resolve_local(value, identifier)
ResolveAssign ==
    /\ RIsExpr("Assign")
    /\ rstack' = <<[k |-> "expr", e |-> RTask.e.value],
                   [k |-> "assign_local", e |-> RTask.e]>> \o Tail(rstack)
    /\ UNCHANGED <<scopes, current_function, locals, reported>>
    /\ RUnchanged

ResolveAssignLocal ==
    /\ RIsTask("assign_local")
    /\ locals' = resolve_local(scopes, locals, RTask.e.value, RTask.e.name)
    /\ rstack' = Tail(rstack)
    /\ UNCHANGED <<scopes, current_function, reported>>
    /\ RUnchanged

ResolveGet ==
    /\ RIsExpr("Get")
    /\ rstack' = <<[k |-> "expr", e |-> RTask.e.object]>> \o Tail(rstack)
    /\ UNCHANGED <<scopes, current_function, locals, reported>>
    /\ RUnchanged

ResolveSet ==
    /\ RIsExpr("Set")
    /\ rstack' = <<[k |-> "expr", e |-> RTask.e.value],
                   [k |-> "expr", e |-> RTask.e.object]>> \o Tail(rstack)
    /\ UNCHANGED <<scopes, current_function, locals, reported>>
    /\ RUnchanged

\* Expr::This is resolved like a variable named by the keyword
ResolveThis ==
    /\ RIsExpr("This")
    /\ locals' = resolve_local(scopes, locals, RTask.e, RTask.e.name)
    /\ rstack' = Tail(rstack)
    /\ UNCHANGED <<scopes, current_function, reported>>
    /\ RUnchanged

\* Expr::Logical and Expr::Binary: the left operand, then the right
ResolveBinary ==
    /\ phase = "resolve" /\ rstack # <<>>
    /\ RTask.k = "expr" /\ RTask.e.t \in {"Logical", "Binary"}
    /\ rstack' = <<[k |-> "expr", e |-> RTask.e.left],
                   [k |-> "expr", e |-> RTask.e.right]>> \o Tail(rstack)
    /\ UNCHANGED <<scopes, current_function, locals, reported>>
    /\ RUnchanged

ResolveGrouping ==
    /\ RIsExpr("Grouping")
    /\ rstack' = <<[k |-> "expr", e |-> RTask.e.expr]>> \o Tail(rstack)
    /\ UNCHANGED <<scopes, current_function, locals, reported>>
    /\ RUnchanged

ResolveUnary ==
    /\ RIsExpr("Unary")
    /\ rstack' = <<[k |-> "expr", e |-> RTask.e.right]>> \o Tail(rstack)
    /\ UNCHANGED <<scopes, current_function, locals, reported>>
    /\ RUnchanged

ResolverNext ==
    \/ ResolveBinary \/ ResolveGrouping \/ ResolveUnary
    \/ ResolveVar \/ ResolveDefine \/ ResolveBlock \/ ResolveEndScope
    \/ ResolveClass \/ ResolveIf \/ ResolveExpression \/ ResolveFunctionStmt
    \/ ResolveFunction \/ ResolveEndFunction \/ ResolvePrint \/ ResolveReturn
    \/ ResolveWhile \/ ResolveCall \/ ResolveLiteral \/ ResolveVariable
    \/ ResolveAssign \/ ResolveAssignLocal \/ ResolveGet \/ ResolveSet
    \/ ResolveThis

(***************************************************************************)
(* Environment (environment.rs).  A cell is [values, enclosing];           *)
(* enclosing = 0 is None.                                                  *)
(***************************************************************************)
Ok(v) == [ok |-> TRUE, v |-> v]
Err(e) == [ok |-> FALSE, err |-> e]

\* RuntimeError::new
RuntimeError(token, message) == [message |-> message, line |-> token.line]

\* Environment::from_enclosing
from_enclosing(enclosing) == [values |-> EmptyMap, enclosing |-> enclosing]

\* Environment::define on the cell id
EnvDefine(es, id, name, v) == [es EXCEPT ![id].values = (name :> v) @@ @]

RECURSIVE EnvGet(_, _, _)
\* Environment::get
EnvGet(es, id, name) ==
    IF name.lexeme \in DOMAIN es[id].values
    THEN Ok(es[id].values[name.lexeme])
    ELSE IF es[id].enclosing = 0
         THEN Err(RuntimeError(name, "Undefined variable: '" \o name.lexeme \o "'."))
         ELSE EnvGet(es, es[id].enclosing, name)

RECURSIVE ancestor(_, _, _)
\* Environment::ancestor; 0 when the unwrap of a missing enclosing panics
ancestor(es, id, distance) ==
    IF distance = 0 THEN id
    ELSE IF es[id].enclosing = 0 THEN 0
         ELSE ancestor(es, es[id].enclosing, distance - 1)

\* Environment::get_at, given that ancestor did not panic
get_at(es, id, distance, name) ==
    LET a == ancestor(es, id, distance)
    IN  IF name.lexeme \in DOMAIN es[a].values
        THEN Ok(es[a].values[name.lexeme])
        ELSE Err(RuntimeError(name, "TODO: couldn't get_at"))

RECURSIVE EnvAssignTarget(_, _, _)
\* Environment::assign: the cell whose entry is occupied, 0 if none
EnvAssignTarget(es, id, name) ==
    IF name.lexeme \in DOMAIN es[id].values THEN id
    ELSE IF es[id].enclosing = 0 THEN 0
         ELSE EnvAssignTarget(es, es[id].enclosing, name)

\* an assign that defines the name in the receiver when no environment has it
EnvAssignCreates(es, id, name, v) ==
    LET target == EnvAssignTarget(es, id, name)
    IN  EnvDefine(es, IF target = 0 THEN id ELSE target, name.lexeme, v)

\* Environment::assign: the cells afterwards
EnvAssignCells(es, id, name, v) ==
    LET target == EnvAssignTarget(es, id, name)
    IN  IF target = 0 THEN es ELSE EnvDefine(es, target, name.lexeme, v)

\* Environment::assign: the result
EnvAssignResult(es, id, name) ==
    IF EnvAssignTarget(es, id, name) = 0
    THEN Err(RuntimeError(name, "Undefined variable: '" \o name.lexeme \o "'."))
    ELSE Ok(Nil)

\* an assign_at that writes to the environment it is handed
assign_at_innermost(es, id, distance, name, v) ==
    EnvDefine(es, id, name.lexeme, v)

\* Environment::assign_at: the cells afterwards (HashMap::insert always inserts)
assign_at_cells(es, id, distance, name, v) ==
    EnvDefine(es, ancestor(es, id, distance), name.lexeme, v)

\* Environment::assign_at: the result (insert returned the old value or None)
assign_at_result(es, id, distance, name) ==
    IF name.lexeme \in DOMAIN es[ancestor(es, id, distance)].values
    THEN Ok(Nil)
    ELSE Err(RuntimeError(name, "TODO: couldn't assign_at"))

(***************************************************************************)
(* Callables (callable.rs, lox_class.rs, lox_instance.rs).                 *)
(***************************************************************************)
\* LoxFunction::new
LoxFunction(name, parameters, body, closure, is_initializer) ==
    [t |-> "Function", name |-> name, parameters |-> parameters,
     body |-> body, closure |-> closure, is_initializer |-> is_initializer]

\* LoxClass::new
LoxClass(name, methods) == [t |-> "Class", name |-> name, methods |-> methods]

\* LoxInstance::new
LoxInstance(klass) == [klass |-> klass, fields |-> EmptyMap]

\* LoxClass::find_method
HasMethod(klass, name) == name \in DOMAIN klass.methods

\* Callable::arity for Clock, LoxFunction and LoxClass
arity(callee) ==
    CASE callee.t = "Clock" -> 0
      [] callee.t = "Function" -> Len(callee.parameters)
      [] callee.t = "Class" ->
            IF HasMethod(callee, "init")
            THEN Len(callee.methods["init"].parameters)
            ELSE 0

\* Callable::check_arity
check_arity(callee, paren, arguments) ==
    IF Len(arguments) # arity(callee)
    THEN Err(RuntimeError(paren,
               "Expected " \o ToString(arity(callee)) \o " arguments but got "
                 \o ToString(Len(arguments)) \o "."))
    ELSE Ok(Nil)

\* LoxFunction::bind: the environment cells afterwards
bind_cells(es, method, this_object) ==
    EnvDefine(es, method.closure, "this", this_object)

\* LoxFunction::bind: the function returned
bind(method) ==
    LoxFunction(method.name, method.parameters, method.body, method.closure,
                method.is_initializer)

\* LoxInstance::get
InstanceGet(instance, name) ==
    IF name.lexeme \in DOMAIN instance.fields
    THEN Ok(instance.fields[name.lexeme])
    ELSE IF HasMethod(instance.klass, name.lexeme)
         THEN Ok(instance.klass.methods[name.lexeme])
         ELSE Err(Nil)

\* LoxInstance::set
InstanceSet(instance, name, v) ==
    [instance EXCEPT !.fields = (name.lexeme :> v) @@ @]

RECURSIVE define_params(_, _, _)
\* the zip of parameters and arguments in LoxFunction::call
define_params(env, parameters, arguments) ==
    IF parameters = <<>> \/ arguments = <<>> THEN env
    ELSE define_params(
           [env EXCEPT !.values = (Head(parameters) :> Head(arguments)) @@ @],
           Tail(parameters), Tail(arguments))

\* a LoxFunction::call that hands the Return signal's value back even from an
\* initializer
CallResultOfReturn(sig, is_initializer, this_lookup) ==
    CASE sig.k = "Ok" -> IF is_initializer THEN this_lookup ELSE Ok(Nil)
      [] sig.k = "Return" -> Ok(sig.v)
      [] sig.k = "Error" -> Err(sig.err)

\* the value LoxFunction::call returns for what execute_block returned
CallResult(sig, is_initializer, this_lookup) ==
    CASE sig.k = "Ok" -> IF is_initializer THEN this_lookup ELSE Ok(Nil)
      [] sig.k = "Return" -> IF is_initializer THEN this_lookup ELSE Ok(sig.v)
      [] sig.k = "Error" -> Err(sig.err)

\* Display for Object
Display(v, is) ==
    CASE v.t = "Nil" -> "nil"
      [] v.t = "Boolean" -> IF v.b THEN "true" ELSE "false"
      [] v.t = "Number" -> ToString(v.n)
      [] v.t = "String" -> v.s
      [] v.t = "Clock" -> "<fn clock>"
      [] v.t \in {"Function", "Class"} -> "<fn " \o v.name \o ">"
      [] v.t = "Instance" -> is[v.ref].klass.name \o " instance"

(***************************************************************************)
(* Evaluator (interpreter.rs).                                             *)
(***************************************************************************)
Idle == [m |-> "idle"]
CtlStmt(s) == [m |-> "stmt", s |-> s]
CtlExpr(e) == [m |-> "expr", e |-> e]
CtlVal(v) == [m |-> "val", v |-> v]
CtlErr(e) == [m |-> "err", err |-> e]
SigOk == [m |-> "sig", k |-> "Ok"]
SigReturn(v) == [m |-> "sig", k |-> "Return", v |-> v]
SigError(e) == [m |-> "sig", k |-> "Error", err |-> e]
\* a Result<Rc<Object>, RuntimeError> handed back to the caller
FromResult(r) == IF r.ok THEN CtlVal(r.v) ELSE CtlErr(r.err)

Top == Head(stack)
Running == phase = "run"
IsStmt(kind) == Running /\ ctl.m = "stmt" /\ ctl.s.t = kind
IsExpr(kind) == Running /\ ctl.m = "expr" /\ ctl.e.t = kind
Returned(m, kind) == Running /\ ctl.m = m /\ stack # <<>> /\ Top.k = kind
Push(frame) == <<frame>> \o stack

\* the frames of evaluate_stmt that wait for an expression
StmtFrames == {"Expression", "Print", "Var", "If", "While", "Return"}
\* the frames of evaluate that wait for an expression
ExprFrames ==
    {"Assign", "Callee", "Args", "GetObject", "SetObject", "SetValue",
     "Logical", "BinaryLeft", "BinaryRight", "Unary"}

Continue == UNCHANGED <<program, fvars, phase, exit_code, rvars>>

\* a Rust panic: the process aborts
Panic ==
    /\ phase' = "done"
    /\ exit_code' = 101
    /\ ctl' = [m |-> "panic"]
    /\ UNCHANGED <<program, fvars, rvars, envs, insts, environment, stack, pc, last,
                   output>>

\* Interpreter::lookup_variable / assign_variable: the key looked up in locals
HasDepth(tbl, expr) == Key(expr) \in DOMAIN tbl
DepthOf(tbl, expr) == tbl[Key(expr)]

\* a lookup that walks the environment chain at the time of the access
lookup_dynamic(tbl, es, env, name, expr) == EnvGet(es, env, name)

\* Interpreter::lookup_variable
lookup_variable(tbl, es, env, name, expr) ==
    IF HasDepth(tbl, expr)
    THEN get_at(es, env, DepthOf(tbl, expr), name)
    ELSE EnvGet(es, globals, name)

\* whether the ancestor walk of a resolved access panics
AccessPanics(tbl, es, env, expr) ==
    HasDepth(tbl, expr) /\ ancestor(es, env, DepthOf(tbl, expr)) = 0

\* Interpreter::assign_variable after the value is evaluated: the cells
assign_variable_cells(tbl, es, env, name, expr, v) ==
    IF HasDepth(tbl, expr)
    THEN assign_at_cells(es, env, DepthOf(tbl, expr), name, v)
    ELSE EnvAssignCells(es, globals, name, v)

\* Interpreter::assign_variable after the value is evaluated: the result
assign_variable_result(tbl, es, env, name, expr, v) ==
    LET r == IF HasDepth(tbl, expr)
             THEN assign_at_result(es, env, DepthOf(tbl, expr), name)
             ELSE EnvAssignResult(es, globals, name)
    IN  IF r.ok THEN Ok(v) ELSE r

\* an `or` / `and` that always goes on to its right operand
NeverShortCircuits(operator, left) == FALSE

\* Interpreter::evaluate_logical: whether the left operand is the result
ShortCircuits(operator, left) ==
    IF operator.token_type = "And" THEN ~is_truthy(left) ELSE is_truthy(left)

\* Interpreter::evaluate_unary once the operand is known
unary_result(operator, right) ==
    CASE operator.token_type = "Minus" ->
            IF right.t = "Number" THEN Ok(Number(0 - right.n))
            ELSE Err(RuntimeError(operator, "Operand must be a number"))
      [] operator.token_type = "Bang" -> Ok(Boolean(~is_truthy(right)))

\* f64 division: the quotient when it is a whole number, the fraction
\* otherwise
Quotient(left, right) ==
    IF right # 0 /\ left % right = 0 THEN left \div right
    ELSE [numerator |-> left, denominator |-> right]

\* Interpreter::evaluate_binary once both operands are known
binary_result(operator, left, right) ==
    LET numbers == left.t = "Number" /\ right.t = "Number"
        not_numbers == Err(RuntimeError(operator, "Operands must be numbers."))
        ordering == partial_cmp(left, right)
    IN  CASE operator.token_type = "Minus" ->
                IF numbers THEN Ok(Number(left.n - right.n)) ELSE not_numbers
          [] operator.token_type = "Slash" ->
                IF numbers THEN Ok(Number(Quotient(left.n, right.n)))
                ELSE not_numbers
          [] operator.token_type = "Star" ->
                IF numbers THEN Ok(Number(left.n * right.n)) ELSE not_numbers
          [] operator.token_type = "Plus" ->
                IF numbers THEN Ok(Number(left.n + right.n))
                ELSE IF left.t = "String" /\ right.t = "String"
                THEN Ok(String(left.s \o right.s))
                ELSE Err(RuntimeError(operator,
                         "Operands must be two numbers or two strings."))
          [] operator.token_type
               \in {"Greater", "GreaterEqual", "Less", "LessEqual"} ->
                IF ordering = "None" THEN not_numbers
                ELSE Ok(Boolean(OrderingTest(operator.token_type, ordering)))
          [] operator.token_type = "BangEqual" ->
                Ok(Boolean(~ObjectEq(left, right)))
          [] operator.token_type = "EqualEqual" ->
                Ok(Boolean(ObjectEq(left, right)))

\* an execute_block that keeps the block's environment when a statement fails
KeepOnErr(previous, current) == current

\* Interpreter::execute_block, error path: the environment installed
RestoreOnErr(previous, current) == previous

\* Interpreter::execute_block, normal path: the environment installed
RestoreOnOk(previous, current) == previous

\* Interpreter::execute_block up to the first statement; cells already holds
\* the new environment as its last cell
ExecuteBlockEnter(statements, cells, frames) ==
    /\ envs' = cells
    /\ IF statements = <<>>
       THEN /\ environment' = RestoreOnOk(environment, Len(cells))
            /\ stack' = frames
            /\ ctl' = SigOk
       ELSE /\ environment' = Len(cells)
            /\ stack' = <<[k |-> "Block", previous |-> environment,
                           statements |-> Tail(statements)]>> \o frames
            /\ ctl' = CtlStmt(Head(statements))

\* ------------------------------------------------------------ statements
EvalExpression ==
    /\ IsStmt("Expression")
    /\ stack' = Push([k |-> "Expression"])
    /\ ctl' = CtlExpr(ctl.s.expr)
    /\ UNCHANGED <<envs, insts, environment, pc, last, output>>
    /\ Continue

ExpressionDone ==
    /\ Returned("val", "Expression")
    /\ stack' = Tail(stack)
    /\ ctl' = SigOk
    /\ UNCHANGED <<envs, insts, environment, pc, last, output>>
    /\ Continue

EvalIf ==
    /\ IsStmt("If")
    /\ stack' = Push([k |-> "If", then_branch |-> ctl.s.then_branch,
                      else_branch |-> ctl.s.else_branch])
    /\ ctl' = CtlExpr(ctl.s.cond)
    /\ UNCHANGED <<envs, insts, environment, pc, last, output>>
    /\ Continue

IfBranch ==
    /\ Returned("val", "If")
    /\ stack' = Tail(stack)
    /\ ctl' = IF is_truthy(ctl.v) THEN CtlStmt(Top.then_branch)
              ELSE IF Top.else_branch.t # "None" THEN CtlStmt(Top.else_branch)
              ELSE SigOk
    /\ UNCHANGED <<envs, insts, environment, pc, last, output>>
    /\ Continue

EvalPrint ==
    /\ IsStmt("Print")
    /\ stack' = Push([k |-> "Print"])
    /\ ctl' = CtlExpr(ctl.s.expr)
    /\ UNCHANGED <<envs, insts, environment, pc, last, output>>
    /\ Continue

PrintDone ==
    /\ Returned("val", "Print")
    /\ output' = Append(output, Display(ctl.v, insts))
    /\ stack' = Tail(stack)
    /\ ctl' = SigOk
    /\ UNCHANGED <<envs, insts, environment, pc, last>>
    /\ Continue

EvalVar ==
    /\ IsStmt("Var")
    /\ IF ctl.s.init.t # "None"
       THEN /\ stack' = Push([k |-> "Var", name |-> ctl.s.name])
            /\ ctl' = CtlExpr(ctl.s.init)
            /\ envs' = envs
       ELSE /\ envs' = EnvDefine(envs, environment, ctl.s.name, Nil)
            /\ ctl' = SigOk
            /\ stack' = stack
    /\ UNCHANGED <<insts, environment, pc, last, output>>
    /\ Continue

VarDone ==
    /\ Returned("val", "Var")
    /\ envs' = EnvDefine(envs, environment, Top.name, ctl.v)
    /\ stack' = Tail(stack)
    /\ ctl' = SigOk
    /\ UNCHANGED <<insts, environment, pc, last, output>>
    /\ Continue

EvalBlock ==
    /\ IsStmt("Block")
    /\ Len(envs) < MaxEnvs
    /\ ExecuteBlockEnter(ctl.s.statements,
                         Append(envs, from_enclosing(environment)), stack)
    /\ UNCHANGED <<insts, pc, last, output>>
    /\ Continue

\* execute_block: the next statement of the loop
BlockNext ==
    /\ Returned("sig", "Block")
    /\ ctl.k = "Ok"
    /\ Top.statements # <<>>
    /\ ctl' = CtlStmt(Head(Top.statements))
    /\ stack' = <<[Top EXCEPT !.statements = Tail(@)]>> \o Tail(stack)
    /\ UNCHANGED <<envs, insts, environment, pc, last, output>>
    /\ Continue

\* execute_block: all statements done
BlockExit ==
    /\ Returned("sig", "Block")
    /\ ctl.k = "Ok"
    /\ Top.statements = <<>>
    /\ environment' = RestoreOnOk(Top.previous, environment)
    /\ stack' = Tail(stack)
    /\ ctl' = SigOk
    /\ UNCHANGED <<envs, insts, pc, last, output>>
    /\ Continue

\* execute_block: a statement returned Err (a Return or a runtime error)
BlockErr ==
    /\ Returned("sig", "Block")
    /\ ctl.k # "Ok"
    /\ environment' = RestoreOnErr(Top.previous, environment)
    /\ stack' = Tail(stack)
    /\ ctl' = ctl
    /\ UNCHANGED <<envs, insts, pc, last, output>>
    /\ Continue

EvalWhile ==
    /\ IsStmt("While")
    /\ stack' = Push([k |-> "While", cond |-> ctl.s.cond, body |-> ctl.s.body])
    /\ ctl' = CtlExpr(ctl.s.cond)
    /\ UNCHANGED <<envs, insts, environment, pc, last, output>>
    /\ Continue

\* the condition of a while loop is evaluated
WhileCond ==
    /\ Returned("val", "While")
    /\ IF is_truthy(ctl.v)
       THEN ctl' = CtlStmt(Top.body) /\ stack' = stack
       ELSE ctl' = SigOk /\ stack' = Tail(stack)
    /\ UNCHANGED <<envs, insts, environment, pc, last, output>>
    /\ Continue

\* the body of a while loop is done
WhileBody ==
    /\ Returned("sig", "While")
    /\ IF ctl.k = "Ok"
       THEN ctl' = CtlExpr(Top.cond) /\ stack' = stack
       ELSE ctl' = ctl /\ stack' = Tail(stack)
    /\ UNCHANGED <<envs, insts, environment, pc, last, output>>
    /\ Continue

EvalFunction ==
    /\ IsStmt("Function")
    /\ envs' = EnvDefine(envs, environment, ctl.s.name,
                 LoxFunction(ctl.s.name, ctl.s.params, ctl.s.body, environment,
                             FALSE))
    /\ ctl' = SigOk
    /\ UNCHANGED <<insts, environment, stack, pc, last, output>>
    /\ Continue

EvalReturn ==
    /\ IsStmt("Return")
    /\ IF ctl.s.value.t = "None"
       THEN ctl' = SigReturn(Nil) /\ stack' = stack
       ELSE ctl' = CtlExpr(ctl.s.value) /\ stack' = Push([k |-> "Return"])
    /\ UNCHANGED <<envs, insts, environment, pc, last, output>>
    /\ Continue

ReturnDone ==
    /\ Returned("val", "Return")
    /\ ctl' = SigReturn(ctl.v)
    /\ stack' = Tail(stack)
    /\ UNCHANGED <<envs, insts, environment, pc, last, output>>
    /\ Continue

\* the methods of a class declaration as LoxFunctions closed over env
ClassMethods(methods, env) ==
    [n \in {methods[i].name : i \in DOMAIN methods} |->
        LET m == CHOOSE i \in DOMAIN methods :
                    /\ methods[i].name = n
                    /\ \A j \in DOMAIN methods : methods[j].name = n => j <= i
        IN  LoxFunction(n, methods[m].params, methods[m].body, env, n = "init")]

EvalClass ==
    /\ IsStmt("Class")
    /\ envs' = EnvDefine(envs, environment, ctl.s.name,
                 LoxClass(ctl.s.name, ClassMethods(ctl.s.methods, environment)))
    /\ ctl' = SigOk
    /\ UNCHANGED <<insts, environment, stack, pc, last, output>>
    /\ Continue

\* `?` in evaluate_stmt: a RuntimeError becomes Control::Error
StmtError ==
    /\ Running /\ ctl.m = "err" /\ stack # <<>> /\ Top.k \in StmtFrames
    /\ ctl' = SigError(ctl.err)
    /\ stack' = Tail(stack)
    /\ UNCHANGED <<envs, insts, environment, pc, last, output>>
    /\ Continue

\* `?` in evaluate: a RuntimeError is returned to the caller
ExprError ==
    /\ Running /\ ctl.m = "err" /\ stack # <<>> /\ Top.k \in ExprFrames
    /\ ctl' = ctl
    /\ stack' = Tail(stack)
    /\ UNCHANGED <<envs, insts, environment, pc, last, output>>
    /\ Continue

\* ----------------------------------------------------------- expressions
EvalLiteral ==
    /\ IsExpr("Literal")
    /\ ctl' = CtlVal(ctl.e.value)
    /\ UNCHANGED <<envs, insts, environment, stack, pc, last, output>>
    /\ Continue

EvalVariable ==
    /\ IsExpr("Variable")
    /\ IF AccessPanics(locals, envs, environment, ctl.e)
       THEN Panic
       ELSE /\ ctl' = FromResult(lookup_variable(locals, envs, environment,
                                                 ctl.e.name, ctl.e))
            /\ UNCHANGED <<envs, insts, environment, stack, pc, last, output>>
            /\ Continue

\* Expr::This is looked up like a variable named by the keyword
EvalThis ==
    /\ IsExpr("This")
    /\ IF AccessPanics(locals, envs, environment, ctl.e)
       THEN Panic
       ELSE /\ ctl' = FromResult(lookup_variable(locals, envs, environment,
                                                 ctl.e.name, ctl.e))
            /\ UNCHANGED <<envs, insts, environment, stack, pc, last, output>>
            /\ Continue

EvalAssign ==
    /\ IsExpr("Assign")
    /\ stack' = Push([k |-> "Assign", e |-> ctl.e])
    /\ ctl' = CtlExpr(ctl.e.value)
    /\ UNCHANGED <<envs, insts, environment, pc, last, output>>
    /\ Continue

\* assign_variable once the value is known: locals is read with the value
\* expression as the key
AssignDone ==
    /\ Returned("val", "Assign")
    /\ IF AccessPanics(locals, envs, environment, Top.e.value)
       THEN Panic
       ELSE /\ envs' = assign_variable_cells(locals, envs, environment,
                                             Top.e.name, Top.e.value, ctl.v)
            /\ ctl' = FromResult(assign_variable_result(locals, envs,
                          environment, Top.e.name, Top.e.value, ctl.v))
            /\ stack' = Tail(stack)
            /\ UNCHANGED <<insts, environment, pc, last, output>>
            /\ Continue

EvalCall ==
    /\ IsExpr("Call")
    /\ stack' = Push([k |-> "Callee", paren |-> ctl.e.paren,
                      arguments |-> ctl.e.arguments])
    /\ ctl' = CtlExpr(ctl.e.callee)
    /\ UNCHANGED <<envs, insts, environment, pc, last, output>>
    /\ Continue

\* evaluate_call: the callee is evaluated, the arguments come next
CalleeDone ==
    /\ Returned("val", "Callee")
    /\ IF Top.arguments = <<>>
       THEN /\ ctl' = [m |-> "call"]
            /\ stack' = <<[k |-> "Args", callee |-> ctl.v, paren |-> Top.paren,
                           rest |-> <<>>, arguments |-> <<>>]>> \o Tail(stack)
       ELSE /\ ctl' = CtlExpr(Head(Top.arguments))
            /\ stack' = <<[k |-> "Args", callee |-> ctl.v, paren |-> Top.paren,
                           rest |-> Tail(Top.arguments), arguments |-> <<>>]>>
                          \o Tail(stack)
    /\ UNCHANGED <<envs, insts, environment, pc, last, output>>
    /\ Continue

\* evaluate_call: one argument is evaluated
ArgDone ==
    /\ Returned("val", "Args")
    /\ IF Top.rest = <<>>
       THEN /\ ctl' = [m |-> "call"]
            /\ stack' = <<[Top EXCEPT !.arguments = Append(@, ctl.v)]>>
                          \o Tail(stack)
       ELSE /\ ctl' = CtlExpr(Head(Top.rest))
            /\ stack' = <<[Top EXCEPT !.arguments = Append(@, ctl.v),
                                      !.rest = Tail(@)]>> \o Tail(stack)
    /\ UNCHANGED <<envs, insts, environment, pc, last, output>>
    /\ Continue

Dispatch(kinds) ==
    /\ Running /\ ctl.m = "call" /\ stack # <<>> /\ Top.k = "Args"
    /\ Top.callee.t \in kinds

\* evaluate_call: the callee is not an Object::Callable
CallNotCallable ==
    /\ Dispatch({"Nil", "Boolean", "Number", "String", "Instance"})
    /\ ctl' = CtlErr(RuntimeError(Top.paren,
                 "'" \o Display(Top.callee, insts) \o "' is not callable"))
    /\ stack' = Tail(stack)
    /\ UNCHANGED <<envs, insts, environment, pc, last, output>>
    /\ Continue

\* what SystemTime::now().duration_since(UNIX_EPOCH) may give: seconds, or
\* -1 when the system clock is before the epoch
ClockReadings == {-1, 0, 7}

\* Clock::call
ClockCall(paren, arguments, reading) ==
    IF reading >= 0 THEN Ok(Number(reading))
    ELSE Err(RuntimeError(paren, "second time provided was later than self"))

CallClock ==
    /\ Dispatch({"Clock"})
    /\ \E reading \in ClockReadings :
         ctl' = FromResult(ClockCall(Top.paren, Top.arguments, reading))
    /\ stack' = Tail(stack)
    /\ UNCHANGED <<envs, insts, environment, pc, last, output>>
    /\ Continue

\* LoxFunction::call up to the first statement of the body
FunctionCallEnter(function, paren, arguments, cells, frames) ==
    ExecuteBlockEnter(function.body,
        Append(cells, define_params(from_enclosing(function.closure),
                                    function.parameters, arguments)),
        <<[k |-> "Call", closure |-> function.closure,
           is_initializer |-> function.is_initializer, paren |-> paren]>>
          \o frames)

CallFunction ==
    /\ Dispatch({"Function"})
    /\ IF ~check_arity(Top.callee, Top.paren, Top.arguments).ok
       THEN /\ ctl' = FromResult(check_arity(Top.callee, Top.paren, Top.arguments))
            /\ stack' = Tail(stack)
            /\ UNCHANGED <<envs, environment>>
       ELSE /\ Len(envs) < MaxEnvs
            /\ FunctionCallEnter(Top.callee, Top.paren, Top.arguments, envs,
                                 Tail(stack))
    /\ UNCHANGED <<insts, pc, last, output>>
    /\ Continue

\* the Token built in LoxFunction::call to look `this` up
this_token(paren) == Tok("this", paren.line)

\* LoxFunction::call: execute_block has returned
CallDone ==
    /\ Returned("sig", "Call")
    /\ ctl' = FromResult(CallResult(ctl, Top.is_initializer,
                  get_at(envs, Top.closure, 0, this_token(Top.paren))))
    /\ stack' = Tail(stack)
    /\ UNCHANGED <<envs, insts, environment, pc, last, output>>
    /\ Continue

\* LoxClass::call: what is made of the result of the initializer's call
InitOutcome(result, instance_object) == Ok(instance_object)

\* LoxClass::call up to the call of the initializer (or to the end, when
\* there is none or when its call returns at once)
CallClass ==
    /\ Dispatch({"Class"})
    /\ LET klass == Top.callee
           instance == LoxInstance(klass)
       IN  IF ~HasMethod(klass, "init")
           THEN /\ Len(insts) < MaxInsts
                /\ insts' = Append(insts, instance)
                /\ ctl' = FromResult(InitOutcome(Ok(Nil),
                                       InstanceObject(Len(insts) + 1)))
                /\ stack' = Tail(stack)
                /\ UNCHANGED <<envs, environment>>
           ELSE LET init == klass.methods["init"]
                    \* bind: Rc::new(Object::Instance(RefCell::new(instance.clone())))
                    bound_cells == bind_cells(envs, init,
                                              InstanceObject(Len(insts) + 1))
                    bound == bind(init)
                    checked == check_arity(bound, Top.paren, Top.arguments)
                IN  IF ~checked.ok
                    THEN /\ Len(insts) + 1 < MaxInsts
                         /\ insts' = Append(Append(insts, instance), instance)
                         /\ envs' = bound_cells
                         /\ ctl' = FromResult(InitOutcome(checked,
                                                InstanceObject(Len(insts) + 2)))
                         /\ stack' = Tail(stack)
                         /\ UNCHANGED environment
                    ELSE /\ Len(insts) < MaxInsts
                         /\ Len(envs) < MaxEnvs
                         /\ insts' = Append(insts, instance)
                         /\ FunctionCallEnter(bound, Top.paren, Top.arguments,
                              bound_cells,
                              <<[k |-> "ClassCall", instance |-> instance]>>
                                \o Tail(stack))
    /\ UNCHANGED <<pc, last, output>>
    /\ Continue

\* LoxClass::call: the initializer's call has returned
ClassCallDone ==
    /\ Running /\ ctl.m \in {"val", "err"} /\ stack # <<>> /\ Top.k = "ClassCall"
    /\ Len(insts) < MaxInsts
    /\ insts' = Append(insts, Top.instance)
    /\ ctl' = FromResult(InitOutcome(
                 IF ctl.m = "val" THEN Ok(ctl.v) ELSE Err(ctl.err),
                 InstanceObject(Len(insts) + 1)))
    /\ stack' = Tail(stack)
    /\ UNCHANGED <<envs, environment, pc, last, output>>
    /\ Continue

EvalGet ==
    /\ IsExpr("Get")
    /\ stack' = Push([k |-> "GetObject", name |-> ctl.e.name])
    /\ ctl' = CtlExpr(ctl.e.object)
    /\ UNCHANGED <<envs, insts, environment, pc, last, output>>
    /\ Continue

\* the property read by Expr::Get on the evaluated object
GetProperty(object, name, is) ==
    IF object.t # "Instance"
    THEN Err(RuntimeError(name, "Only instances have properties."))
    ELSE IF InstanceGet(is[object.ref], name).ok
         THEN InstanceGet(is[object.ref], name)
         ELSE Err(RuntimeError(name, "Undefined property '" \o name.lexeme \o "'."))

GetDone ==
    /\ Returned("val", "GetObject")
    /\ ctl' = FromResult(GetProperty(ctl.v, Top.name, insts))
    /\ stack' = Tail(stack)
    /\ UNCHANGED <<envs, insts, environment, pc, last, output>>
    /\ Continue

EvalSet ==
    /\ IsExpr("Set")
    /\ stack' = Push([k |-> "SetObject", name |-> ctl.e.name,
                      value |-> ctl.e.value])
    /\ ctl' = CtlExpr(ctl.e.object)
    /\ UNCHANGED <<envs, insts, environment, pc, last, output>>
    /\ Continue

SetObjectDone ==
    /\ Returned("val", "SetObject")
    /\ IF ctl.v.t # "Instance"
       THEN /\ ctl' = CtlErr(RuntimeError(Top.name, "Only instances have fields."))
            /\ stack' = Tail(stack)
       ELSE /\ ctl' = CtlExpr(Top.value)
            /\ stack' = <<[k |-> "SetValue", object |-> ctl.v,
                           name |-> Top.name]>> \o Tail(stack)
    /\ UNCHANGED <<envs, insts, environment, pc, last, output>>
    /\ Continue

SetValueDone ==
    /\ Returned("val", "SetValue")
    /\ insts' = [insts EXCEPT ![Top.object.ref] = InstanceSet(@, Top.name, ctl.v)]
    /\ ctl' = CtlVal(ctl.v)
    /\ stack' = Tail(stack)
    /\ UNCHANGED <<envs, environment, pc, last, output>>
    /\ Continue

EvalLogical ==
    /\ IsExpr("Logical")
    /\ stack' = Push([k |-> "Logical", e |-> ctl.e])
    /\ ctl' = CtlExpr(ctl.e.left)
    /\ UNCHANGED <<envs, insts, environment, pc, last, output>>
    /\ Continue

\* evaluate_logical: the left operand is known
LogicalLeftDone ==
    /\ Returned("val", "Logical")
    /\ ctl' = IF ShortCircuits(Top.e.operator, ctl.v) THEN CtlVal(ctl.v)
              ELSE CtlExpr(Top.e.right)
    /\ stack' = Tail(stack)
    /\ UNCHANGED <<envs, insts, environment, pc, last, output>>
    /\ Continue

EvalBinary ==
    /\ IsExpr("Binary")
    /\ stack' = Push([k |-> "BinaryLeft", e |-> ctl.e])
    /\ ctl' = CtlExpr(ctl.e.left)
    /\ UNCHANGED <<envs, insts, environment, pc, last, output>>
    /\ Continue

\* evaluate_binary: the left operand is known
BinaryLeftDone ==
    /\ Returned("val", "BinaryLeft")
    /\ stack' = <<[k |-> "BinaryRight", e |-> Top.e, left |-> ctl.v]>>
                  \o Tail(stack)
    /\ ctl' = CtlExpr(Top.e.right)
    /\ UNCHANGED <<envs, insts, environment, pc, last, output>>
    /\ Continue

\* evaluate_binary: both operands are known
BinaryRightDone ==
    /\ Returned("val", "BinaryRight")
    /\ ctl' = FromResult(binary_result(Top.e.operator, Top.left, ctl.v))
    /\ stack' = Tail(stack)
    /\ UNCHANGED <<envs, insts, environment, pc, last, output>>
    /\ Continue

EvalGrouping ==
    /\ IsExpr("Grouping")
    /\ ctl' = CtlExpr(ctl.e.expr)
    /\ UNCHANGED <<envs, insts, environment, stack, pc, last, output>>
    /\ Continue

EvalUnary ==
    /\ IsExpr("Unary")
    /\ stack' = Push([k |-> "Unary", e |-> ctl.e])
    /\ ctl' = CtlExpr(ctl.e.right)
    /\ UNCHANGED <<envs, insts, environment, pc, last, output>>
    /\ Continue

\* evaluate_unary: the operand is known
UnaryDone ==
    /\ Returned("val", "Unary")
    /\ ctl' = FromResult(unary_result(Top.e.operator, ctl.v))
    /\ stack' = Tail(stack)
    /\ UNCHANGED <<envs, insts, environment, pc, last, output>>
    /\ Continue

InterpreterNext ==
    \/ EvalLogical \/ LogicalLeftDone \/ EvalBinary \/ BinaryLeftDone
    \/ BinaryRightDone \/ EvalGrouping \/ EvalUnary \/ UnaryDone
    \/ EvalExpression \/ ExpressionDone \/ EvalIf \/ IfBranch \/ EvalPrint
    \/ PrintDone \/ EvalVar \/ VarDone \/ EvalBlock \/ BlockNext \/ BlockExit
    \/ BlockErr \/ EvalWhile \/ WhileCond \/ WhileBody \/ EvalFunction
    \/ EvalReturn \/ ReturnDone \/ EvalClass \/ StmtError \/ ExprError
    \/ EvalLiteral \/ EvalVariable \/ EvalThis \/ EvalAssign \/ AssignDone
    \/ EvalCall \/ CalleeDone \/ ArgDone \/ CallNotCallable \/ CallClock
    \/ CallFunction \/ CallDone \/ CallClass \/ ClassCallDone \/ EvalGet
    \/ GetDone \/ EvalSet \/ SetObjectDone \/ SetValueDone

(***************************************************************************)
(* The driver: resolve the whole program, then, unless the resolver        *)
(* flagged it as invalid, evaluate the top-level statements in order; a    *)
(* runtime error ends the run with exit code 70.                           *)
(***************************************************************************)
\* what the Resolver tells its caller about the diagnostics it printed: the
\* struct has no error field, print_error and declare only print, and
\* resolve_statements returns ()
ResolverFlagged(diagnostics) == FALSE

DriverResolved ==
    /\ phase = "resolve" /\ rstack = <<>>
    /\ IF ResolverFlagged(reported)
       THEN phase' = "done" /\ exit_code' = 65
       ELSE phase' = "run" /\ exit_code' = exit_code
    /\ UNCHANGED <<program, fvars, rvars, ivars>>

DriverStatement ==
    /\ Running /\ ctl.m = "idle" /\ pc <= Len(program)
    /\ ctl' = CtlStmt(program[pc])
    /\ UNCHANGED <<envs, insts, environment, stack, pc, last, output>>
    /\ Continue

DriverStatementDone ==
    /\ Running /\ ctl.m = "sig" /\ stack = <<>>
    /\ last' = ctl
    /\ ctl' = Idle
    /\ IF ctl.k = "Error"
       THEN phase' = "done" /\ exit_code' = 70 /\ pc' = pc
       ELSE phase' = phase /\ exit_code' = exit_code /\ pc' = pc + 1
    /\ UNCHANGED <<program, fvars, rvars, envs, insts, environment, stack, output>>

DriverFinish ==
    /\ Running /\ ctl.m = "idle" /\ pc > Len(program)
    /\ phase' = "done"
    /\ exit_code' = 0
    /\ UNCHANGED <<program, fvars, rvars, ivars>>

(***************************************************************************)
(* The programs the model runs, as the parser would build them.  The first *)
(* argument of every expression is its occurrence number, the last number  *)
(* of a token is its source line.                                          *)
(***************************************************************************)
\* var a = 1; { var b = 2; { var c = 3; print c; } print b; } print a;
ProgBlocks ==
    <<StmtVar("a", ExprLiteral(1, Number(1))),
      StmtBlock(<<StmtVar("b", ExprLiteral(2, Number(2))),
                  StmtBlock(<<StmtVar("c", ExprLiteral(3, Number(3))),
                              StmtPrint(ExprVariable(4, "c", 3))>>),
                  StmtPrint(ExprVariable(5, "b", 4))>>),
      StmtPrint(ExprVariable(6, "a", 5))>>

\* fun f(x) { while (x) { { if (x) return x; else x = nil; } } }
\* print f(true); print f(false);
ProgReturn ==
    <<StmtFunction("f", <<"x">>,
        <<StmtWhile(ExprVariable(1, "x", 1),
            StmtBlock(<<StmtBlock(<<
                StmtIf(ExprVariable(2, "x", 2),
                       StmtReturn(2, ExprVariable(3, "x", 2)),
                       StmtExpression(
                           ExprAssign(4, "x", 2, ExprLiteral(5, Nil))))>>)>>))>>),
      StmtPrint(ExprCall(6, ExprVariable(7, "f", 3), 3,
                         <<ExprLiteral(8, Boolean(TRUE))>>)),
      StmtPrint(ExprCall(9, ExprVariable(10, "f", 4), 4,
                         <<ExprLiteral(11, Boolean(FALSE))>>))>>

\* fun h() { { undef; } }  { var t = 1; while (t) { h(); } }  print 1;
ProgError ==
    <<StmtFunction("h", <<>>,
        <<StmtBlock(<<StmtExpression(ExprVariable(1, "undef", 1))>>)>>),
      StmtBlock(<<StmtVar("t", ExprLiteral(2, Number(1))),
                  StmtWhile(ExprVariable(3, "t", 2),
                      StmtBlock(<<StmtExpression(
                          ExprCall(4, ExprVariable(5, "h", 2), 2, <<>>))>>))>>),
      StmtPrint(ExprLiteral(6, Number(1)))>>

\* var n = 0; { var i = true; while (i) { n = 7; i = false; } } print n;
ProgLoop ==
    <<StmtVar("n", ExprLiteral(1, Number(0))),
      StmtBlock(<<StmtVar("i", ExprLiteral(2, Boolean(TRUE))),
                  StmtWhile(ExprVariable(3, "i", 2),
                      StmtBlock(<<
                          StmtExpression(ExprAssign(4, "n", 3,
                                             ExprLiteral(5, Number(7)))),
                          StmtExpression(ExprAssign(6, "i", 4,
                                             ExprLiteral(7, Boolean(FALSE))))>>))>>),
      StmtPrint(ExprVariable(8, "n", 5))>>

\* { var b = 1; { var a = 2; a = b; print a; } }
ProgAssignDepth ==
    <<StmtBlock(<<StmtVar("b", ExprLiteral(1, Number(1))),
                  StmtBlock(<<StmtVar("a", ExprLiteral(2, Number(2))),
                              StmtExpression(ExprAssign(3, "a", 3,
                                                 ExprVariable(4, "b", 3))),
                              StmtPrint(ExprVariable(5, "a", 4))>>)>>)>>

\* { var a; { var b; b = 1; a = 1; print b; } }
ProgLiteralKey ==
    <<StmtBlock(<<StmtVar("a", NoExpr),
                  StmtBlock(<<StmtVar("b", NoExpr),
                              StmtExpression(ExprAssign(1, "b", 3,
                                                 ExprLiteral(2, Number(1)))),
                              StmtExpression(ExprAssign(3, "a", 4,
                                                 ExprLiteral(4, Number(1)))),
                              StmtPrint(ExprVariable(5, "b", 5))>>)>>)>>

\* var g; g = 1; { var a; { a = 1; } }
ProgGlobalKey ==
    <<StmtVar("g", NoExpr),
      StmtExpression(ExprAssign(1, "g", 2, ExprLiteral(2, Number(1)))),
      StmtBlock(<<StmtVar("a", NoExpr),
                  StmtBlock(<<StmtExpression(ExprAssign(3, "a", 3,
                                                 ExprLiteral(4, Number(1))))>>)>>)>>

\* print 1; return 2;
ProgTopReturn ==
    <<StmtPrint(ExprLiteral(1, Number(1))),
      StmtReturn(2, ExprLiteral(2, Number(2)))>>

\* { if (true) { return; } }
ProgNestedTopReturn ==
    <<StmtBlock(<<StmtIf(ExprLiteral(1, Boolean(TRUE)),
                         StmtBlock(<<StmtReturn(1, NoExpr)>>), NoStmt)>>)>>

\* class Greeter { init(name) { this.name = name; } hi() { print this.name; } }
\* var g = Greeter("Ada"); g.hi(); print g.name;
ProgGreeter ==
    <<StmtClass("Greeter",
        <<StmtFunction("init", <<"name">>,
            <<StmtExpression(ExprSet(1, ExprThis(2, 2), "name", 2,
                                     ExprVariable(3, "name", 2)))>>),
          StmtFunction("hi", <<>>,
            <<StmtPrint(ExprGet(4, ExprThis(5, 3), "name", 3))>>)>>),
      StmtVar("g", ExprCall(6, ExprVariable(7, "Greeter", 5), 5,
                            <<ExprLiteral(8, String("Ada"))>>)),
      StmtExpression(ExprCall(9, ExprGet(10, ExprVariable(11, "g", 6), "hi", 6),
                              6, <<>>)),
      StmtPrint(ExprGet(12, ExprVariable(13, "g", 7), "name", 7))>>

\* class P { init(n) { this.n = n; } get() { return this.n; } }
\* var a = P(1); var b = P(2); print a.get();
ProgTwoInstances ==
    <<StmtClass("P",
        <<StmtFunction("init", <<"n">>,
            <<StmtExpression(ExprSet(1, ExprThis(2, 1), "n", 1,
                                     ExprVariable(3, "n", 1)))>>),
          StmtFunction("get", <<>>,
            <<StmtReturn(1, ExprGet(4, ExprThis(5, 1), "n", 1))>>)>>),
      StmtVar("a", ExprCall(6, ExprVariable(7, "P", 2), 2,
                            <<ExprLiteral(8, Number(1))>>)),
      StmtVar("b", ExprCall(9, ExprVariable(10, "P", 3), 3,
                            <<ExprLiteral(11, Number(2))>>)),
      StmtPrint(ExprCall(12, ExprGet(13, ExprVariable(14, "a", 4), "get", 4),
                         4, <<>>))>>

\* print clock(); print clock(1);
ProgClock ==
    <<StmtPrint(ExprCall(1, ExprVariable(2, "clock", 1), 1, <<>>)),
      StmtPrint(ExprCall(3, ExprVariable(4, "clock", 2), 2,
                         <<ExprLiteral(5, Number(1))>>))>>

\* fun f(a) { print a; } f(1); f();
ProgFunctionArity ==
    <<StmtFunction("f", <<"a">>, <<StmtPrint(ExprVariable(1, "a", 1))>>),
      StmtExpression(ExprCall(2, ExprVariable(3, "f", 2), 2,
                              <<ExprLiteral(4, Number(1))>>)),
      StmtExpression(ExprCall(5, ExprVariable(6, "f", 3), 3, <<>>))>>

\* class A {} print A(); print A(1);
ProgClassArity ==
    <<StmtClass("A", <<>>),
      StmtPrint(ExprCall(1, ExprVariable(2, "A", 2), 2, <<>>)),
      StmtPrint(ExprCall(3, ExprVariable(4, "A", 3), 3,
                         <<ExprLiteral(5, Number(1))>>))>>

\* class B { init(x) { print x; } } print B();
ProgInitArity ==
    <<StmtClass("B",
        <<StmtFunction("init", <<"x">>,
            <<StmtPrint(ExprVariable(1, "x", 1))>>)>>),
      StmtPrint(ExprCall(2, ExprVariable(3, "B", 2), 2, <<>>))>>

\* var n; n();
ProgNotCallable ==
    <<StmtVar("n", NoExpr),
      StmtExpression(ExprCall(1, ExprVariable(2, "n", 2), 2, <<>>))>>

\* class C { init() { undef; } } var c = C(); print c;
ProgInitError ==
    <<StmtClass("C",
        <<StmtFunction("init", <<>>,
            <<StmtExpression(ExprVariable(1, "undef", 1))>>)>>),
      StmtVar("c", ExprCall(2, ExprVariable(3, "C", 2), 2, <<>>)),
      StmtPrint(ExprVariable(4, "c", 3))>>

\* class D { init(x) { if (x) return; this.x = x; } }
\* var d = D(true); var e = D(false); print d.init(false); print d.init(true);
ProgInitReturn ==
    <<StmtClass("D",
        <<StmtFunction("init", <<"x">>,
            <<StmtIf(ExprVariable(1, "x", 1), StmtReturn(1, NoExpr), NoStmt),
              StmtExpression(ExprSet(2, ExprThis(3, 1), "x", 1,
                                     ExprVariable(4, "x", 1)))>>)>>),
      StmtVar("d", ExprCall(5, ExprVariable(6, "D", 2), 2,
                            <<ExprLiteral(7, Boolean(TRUE))>>)),
      StmtVar("e", ExprCall(8, ExprVariable(9, "D", 3), 3,
                            <<ExprLiteral(10, Boolean(FALSE))>>)),
      StmtPrint(ExprCall(11, ExprGet(12, ExprVariable(13, "d", 4), "init", 4),
                         4, <<ExprLiteral(14, Boolean(FALSE))>>)),
      StmtPrint(ExprCall(15, ExprGet(16, ExprVariable(17, "d", 5), "init", 5),
                         5, <<ExprLiteral(18, Boolean(TRUE))>>))>>

\* class E { m() { return this; } } var e = E(); print e.m();
ProgMethod ==
    <<StmtClass("E",
        <<StmtFunction("m", <<>>, <<StmtReturn(1, ExprThis(1, 1))>>)>>),
      StmtVar("e", ExprCall(2, ExprVariable(3, "E", 2), 2, <<>>)),
      StmtPrint(ExprCall(4, ExprGet(5, ExprVariable(6, "e", 3), "m", 3),
                         3, <<>>))>>

\* { var a; var a; }  return;  { var b = b; }
ProgStaticErrors ==
    <<StmtBlock(<<StmtVar("a", NoExpr), StmtVar("a", NoExpr)>>),
      StmtReturn(2, NoExpr),
      StmtBlock(<<StmtVar("b", ExprVariable(1, "b", 3))>>)>>

\* var g; var g;  { var s; { var s; } }  fun f(p, p) { var p; }
\* { var a = a; }  { var d; var d; }
ProgDeclarations ==
    <<StmtVar("g", NoExpr), StmtVar("g", NoExpr),
      StmtBlock(<<StmtVar("s", NoExpr), StmtBlock(<<StmtVar("s", NoExpr)>>)>>),
      StmtFunction("f", <<"p", "p">>, <<StmtVar("p", NoExpr)>>),
      StmtBlock(<<StmtVar("a", ExprVariable(1, "a", 4))>>),
      StmtBlock(<<StmtVar("d", NoExpr), StmtVar("d", NoExpr)>>)>>

\* fun f() { { if (true) return; } while (false) return 1;
\*           fun g() { return; } return 2; }
\* return;
ProgReturns ==
    <<StmtFunction("f", <<>>,
        <<StmtBlock(<<StmtIf(ExprLiteral(1, Boolean(TRUE)),
                             StmtReturn(1, NoExpr), NoStmt)>>),
          StmtWhile(ExprLiteral(2, Boolean(FALSE)),
                    StmtReturn(2, ExprLiteral(3, Number(1)))),
          StmtFunction("g", <<>>, <<StmtReturn(3, NoExpr)>>),
          StmtReturn(4, ExprLiteral(4, Number(2)))>>),
      StmtReturn(6, NoExpr)>>

\* class I { init() { return; } m() { return 2; } }
\* class J { init() { return 1; } }
ProgInitValue ==
    <<StmtClass("I",
        <<StmtFunction("init", <<>>, <<StmtReturn(1, NoExpr)>>),
          StmtFunction("m", <<>>, <<StmtReturn(1, ExprLiteral(1, Number(2)))>>)>>),
      StmtClass("J",
        <<StmtFunction("init", <<>>,
            <<StmtReturn(2, ExprLiteral(2, Number(1)))>>)>>)>>

\* var a = "global";
\* { fun showA() { print a; }  showA();  var a = "block";  showA(); }
ProgShowA ==
    <<StmtVar("a", ExprLiteral(1, String("global"))),
      StmtBlock(<<
          StmtFunction("showA", <<>>, <<StmtPrint(ExprVariable(2, "a", 3))>>),
          StmtExpression(ExprCall(3, ExprVariable(4, "showA", 6), 6, <<>>)),
          StmtVar("a", ExprLiteral(5, String("block"))),
          StmtExpression(ExprCall(6, ExprVariable(7, "showA", 8), 8, <<>>))>>)>>

\* fun makeCounter() { var i = 0; fun count() { i = i + 1; return i; }
\*                     return count; }
\* var c1 = makeCounter(); var c2 = makeCounter();
\* print c1(); print c1(); print c2(); print c1();
ProgCounter ==
    <<StmtFunction("makeCounter", <<>>,
        <<StmtVar("i", ExprLiteral(1, Number(0))),
          StmtFunction("count", <<>>,
            <<StmtExpression(ExprAssign(2, "i", 3,
                ExprBinary(3, ExprVariable(4, "i", 3), "Plus", 3,
                           ExprLiteral(5, Number(1))))),
              StmtReturn(4, ExprVariable(6, "i", 4))>>),
          StmtReturn(5, ExprVariable(7, "count", 5))>>),
      StmtVar("c1", ExprCall(8, ExprVariable(9, "makeCounter", 7), 7, <<>>)),
      StmtVar("c2", ExprCall(10, ExprVariable(11, "makeCounter", 8), 8, <<>>)),
      StmtPrint(ExprCall(12, ExprVariable(13, "c1", 9), 9, <<>>)),
      StmtPrint(ExprCall(14, ExprVariable(15, "c1", 10), 10, <<>>)),
      StmtPrint(ExprCall(16, ExprVariable(17, "c2", 11), 11, <<>>)),
      StmtPrint(ExprCall(18, ExprVariable(19, "c1", 12), 12, <<>>))>>

\* var a = 0;
\* print nil or "x"; print 1 and 2; print false and 2; print true or 1;
\* print nil and 1; true or (a = 1); false and (a = 2); print a;
\* false or (a = 5); !a or (a = -a); print a;
ProgLogical ==
    <<StmtVar("a", ExprLiteral(1, Number(0))),
      StmtPrint(ExprLogical(2, ExprLiteral(3, Nil), "Or", 2,
                            ExprLiteral(4, String("x")))),
      StmtPrint(ExprLogical(5, ExprLiteral(6, Number(1)), "And", 3,
                            ExprLiteral(7, Number(2)))),
      StmtPrint(ExprLogical(8, ExprLiteral(9, Boolean(FALSE)), "And", 4,
                            ExprLiteral(10, Number(2)))),
      StmtPrint(ExprLogical(11, ExprLiteral(12, Boolean(TRUE)), "Or", 5,
                            ExprLiteral(13, Number(1)))),
      StmtPrint(ExprLogical(14, ExprLiteral(15, Nil), "And", 6,
                            ExprLiteral(16, Number(1)))),
      StmtExpression(ExprLogical(17, ExprLiteral(18, Boolean(TRUE)), "Or", 7,
          ExprGrouping(19, ExprAssign(20, "a", 7, ExprLiteral(21, Number(1)))))),
      StmtExpression(ExprLogical(22, ExprLiteral(23, Boolean(FALSE)), "And", 8,
          ExprGrouping(24, ExprAssign(25, "a", 8, ExprLiteral(26, Number(2)))))),
      StmtPrint(ExprVariable(27, "a", 9)),
      StmtExpression(ExprLogical(28, ExprLiteral(29, Boolean(FALSE)), "Or", 10,
          ExprGrouping(30, ExprAssign(31, "a", 10, ExprLiteral(32, Number(5)))))),
      StmtExpression(ExprLogical(33,
          ExprUnary(34, "Bang", 11, ExprVariable(35, "a", 11)), "Or", 11,
          ExprGrouping(36, ExprAssign(37, "a", 11,
              ExprUnary(38, "Minus", 11, ExprVariable(39, "a", 12)))))),
      StmtPrint(ExprVariable(40, "a", 13))>>

\* fun f() {} fun g() {}
\* print f == f; print f == g; print f != g; print f == 1; print 1 == "1";
\* print nil == false; print nil == nil; print "a" == "a";
ProgEquality ==
    <<StmtFunction("f", <<>>, <<>>), StmtFunction("g", <<>>, <<>>),
      StmtPrint(ExprBinary(1, ExprVariable(2, "f", 2), "EqualEqual", 2,
                           ExprVariable(3, "f", 2))),
      StmtPrint(ExprBinary(4, ExprVariable(5, "f", 3), "EqualEqual", 3,
                           ExprVariable(6, "g", 3))),
      StmtPrint(ExprBinary(7, ExprVariable(8, "f", 4), "BangEqual", 4,
                           ExprVariable(9, "g", 4))),
      StmtPrint(ExprBinary(10, ExprVariable(11, "f", 5), "EqualEqual", 5,
                           ExprLiteral(12, Number(1)))),
      StmtPrint(ExprBinary(13, ExprLiteral(14, Number(1)), "EqualEqual", 6,
                           ExprLiteral(15, String("1")))),
      StmtPrint(ExprBinary(16, ExprLiteral(17, Nil), "EqualEqual", 7,
                           ExprLiteral(18, Boolean(FALSE)))),
      StmtPrint(ExprBinary(19, ExprLiteral(20, Nil), "EqualEqual", 8,
                           ExprLiteral(21, Nil))),
      StmtPrint(ExprBinary(22, ExprLiteral(23, String("a")), "EqualEqual", 9,
                           ExprLiteral(24, String("a"))))>>

\* print 1 < 2; print 2 <= 1; print 2 > 1; print 1 >= 1; print "a" < "b";
ProgCompareStrings ==
    <<StmtPrint(ExprBinary(1, ExprLiteral(2, Number(1)), "Less", 1,
                           ExprLiteral(3, Number(2)))),
      StmtPrint(ExprBinary(4, ExprLiteral(5, Number(2)), "LessEqual", 2,
                           ExprLiteral(6, Number(1)))),
      StmtPrint(ExprBinary(7, ExprLiteral(8, Number(2)), "Greater", 3,
                           ExprLiteral(9, Number(1)))),
      StmtPrint(ExprBinary(10, ExprLiteral(11, Number(1)), "GreaterEqual", 4,
                           ExprLiteral(12, Number(1)))),
      StmtPrint(ExprBinary(13, ExprLiteral(14, String("a")), "Less", 5,
                           ExprLiteral(15, String("b"))))>>

\* print 1 > nil; print 2;
ProgCompareMixed ==
    <<StmtPrint(ExprBinary(1, ExprLiteral(2, Number(1)), "Greater", 1,
                           ExprLiteral(3, Nil))),
      StmtPrint(ExprLiteral(4, Number(2)))>>

Programs ==
    {ProgCounter, ProgLogical, ProgEquality, ProgCompareStrings,
     ProgCompareMixed, ProgDeclarations, ProgReturns, ProgInitValue, ProgShowA, ProgStaticErrors, ProgBlocks, ProgReturn, ProgError, ProgLoop, ProgAssignDepth,
     ProgLiteralKey, ProgGlobalKey, ProgTopReturn, ProgNestedTopReturn,
     ProgGreeter, ProgTwoInstances, ProgClock, ProgFunctionArity,
     ProgClassArity, ProgInitArity, ProgNotCallable, ProgInitError,
     ProgInitReturn, ProgMethod}

(***************************************************************************)
(* Scanner (scanner.rs).  The source is a sequence of characters; start    *)
(* and current are the 0-based indices of the Rust code, so the character  *)
(* at Rust index i is source[i + 1].                                       *)
(***************************************************************************)
NoScanner == [source |-> <<>>]
NotReturned == [returned |-> FALSE]

\* the result of peek / peek_next at the end of the input
NoChar == ""

Digits == <<"0", "1", "2", "3", "4", "5", "6", "7", "8", "9">>
IsDigit(c) == \E i \in DOMAIN Digits : Digits[i] = c
IsAlpha(c) ==
    c \in {"a", "b", "c", "d", "e", "f", "g", "h", "i", "j", "k", "l", "m",
           "n", "o", "p", "q", "r", "s", "t", "u", "v", "w", "x", "y", "z",
           "A", "B", "C", "D", "E", "F", "G", "H", "I", "J", "K", "L", "M",
           "N", "O", "P", "Q", "R", "S", "T", "U", "V", "W", "X", "Y", "Z",
           "_"}

\* the one-character tokens of scan_tokens
SingleCharTokens ==
    [c \in {"(", ")", "{", "}", ",", ".", "-", "+", ";", "*"} |->
        CASE c = "(" -> "LeftParen" [] c = ")" -> "RightParen"
          [] c = "{" -> "LeftBrace" [] c = "}" -> "RightBrace"
          [] c = "," -> "Comma" [] c = "." -> "Dot" [] c = "-" -> "Minus"
          [] c = "+" -> "Plus" [] c = ";" -> "Semicolon" [] c = "*" -> "Star"]

\* the one-or-two-character operators of scan_tokens: <<alone, with '='>>
OperatorTokens ==
    [c \in {"!", "=", "<", ">"} |->
        CASE c = "!" -> <<"Bang", "BangEqual">>
          [] c = "=" -> <<"Equal", "EqualEqual">>
          [] c = "<" -> <<"Less", "LessEqual">>
          [] c = ">" -> <<"Greater", "GreaterEqual">>]

\* Scanner::new: the keywords table
keywords ==
    [w \in {<<"a", "n", "d">>, <<"c", "l", "a", "s", "s">>,
            <<"e", "l", "s", "e">>, <<"f", "a", "l", "s", "e">>,
            <<"f", "o", "r">>, <<"f", "u", "n">>, <<"i", "f">>,
            <<"n", "i", "l">>, <<"o", "r">>, <<"p", "r", "i", "n", "t">>,
            <<"r", "e", "t", "u", "r", "n">>, <<"s", "u", "p", "e", "r">>,
            <<"t", "h", "i", "s">>, <<"t", "r", "u", "e">>,
            <<"v", "a", "r">>, <<"w", "h", "i", "l", "e">>} |->
        CASE w = <<"a", "n", "d">> -> "And"
          [] w = <<"c", "l", "a", "s", "s">> -> "Class"
          [] w = <<"e", "l", "s", "e">> -> "Else"
          [] w = <<"f", "a", "l", "s", "e">> -> "False"
          [] w = <<"f", "o", "r">> -> "For"
          [] w = <<"f", "u", "n">> -> "Fun"
          [] w = <<"i", "f">> -> "If"
          [] w = <<"n", "i", "l">> -> "Nil"
          [] w = <<"o", "r">> -> "Or"
          [] w = <<"p", "r", "i", "n", "t">> -> "Print"
          [] w = <<"r", "e", "t", "u", "r", "n">> -> "Return"
          [] w = <<"s", "u", "p", "e", "r">> -> "Super"
          [] w = <<"t", "h", "i", "s">> -> "This"
          [] w = <<"t", "r", "u", "e">> -> "True"
          [] w = <<"v", "a", "r">> -> "Var"
          [] w = <<"w", "h", "i", "l", "e">> -> "While"]

\* Scanner::new(source): every other field is its Default
ScannerNew(source) ==
    [source |-> source, tokens |-> <<>>, line_number |-> 0, start |-> 0,
     current |-> 0, had_error |-> FALSE]

is_at_end(sc) == sc.current >= Len(sc.source)
peek(sc) ==
    IF sc.current < Len(sc.source) THEN sc.source[sc.current + 1] ELSE NoChar
peek_next(sc) ==
    IF sc.current + 1 < Len(sc.source) THEN sc.source[sc.current + 2]
    ELSE NoChar
advance(sc) == [sc EXCEPT !.current = @ + 1]
\* Scanner::match_: whether it consumes the expected character
match_(sc, expected) == ~is_at_end(sc) /\ sc.source[sc.current + 1] = expected

LiteralNone == [t |-> "None"]
LiteralString(chars) == [t |-> "String", value |-> chars]
LiteralNumber(whole, fraction) ==
    [t |-> "Number", whole |-> whole, fraction |-> fraction]

\* the text self.source[self.start..self.current]
Lexeme(sc) == SubSeq(sc.source, sc.start + 1, sc.current)

add_token_with_literal(sc, token_type, literal) ==
    [sc EXCEPT !.tokens =
        Append(@, [token_type |-> token_type, lexeme |-> Lexeme(sc),
                   literal |-> literal, line |-> sc.line_number])]
add_token(sc, token_type) == add_token_with_literal(sc, token_type, LiteralNone)

\* print_error(line_number, message)
LexError(line_number, message) == [line |-> line_number, message |-> message]

RECURSIVE StringChomp(_)
\* Scanner::string: the loop up to the closing quote or the end of the input
StringChomp(sc) ==
    IF peek(sc) = NoChar \/ peek(sc) = "\"" THEN sc
    ELSE StringChomp(advance(
             IF peek(sc) = "\n" THEN [sc EXCEPT !.line_number = @ + 1]
             ELSE sc))

\* Scanner::string: the scanner afterwards
string(sc) ==
    LET chomped == StringChomp(sc)
        closed == advance(chomped)
    IN  IF is_at_end(chomped) THEN chomped
        ELSE add_token_with_literal(closed, "String",
                 LiteralString(SubSeq(closed.source, closed.start + 2,
                                      closed.current - 1)))

\* Scanner::string: the diagnostic it prints
string_reports(sc) ==
    IF is_at_end(StringChomp(sc))
    THEN <<LexError(StringChomp(sc).line_number, "Unterminated string")>>
    ELSE <<>>

RECURSIVE DigitsChomp(_)
DigitsChomp(sc) ==
    IF IsDigit(peek(sc)) THEN DigitsChomp(advance(sc)) ELSE sc

RECURSIVE DigitsValue(_)
\* the number a run of decimal digits denotes
DigitsValue(chars) ==
    IF chars = <<>> THEN 0
    ELSE 10 * DigitsValue(SubSeq(chars, 1, Len(chars) - 1))
           + ((CHOOSE i \in DOMAIN Digits : Digits[i] = chars[Len(chars)]) - 1)

\* Scanner::digit
digit(sc) ==
    LET whole == DigitsChomp(sc)
        has_fraction == peek(whole) = "." /\ IsDigit(peek_next(whole))
        all == IF has_fraction THEN DigitsChomp(advance(whole)) ELSE whole
    IN  add_token_with_literal(all, "Number",
            LiteralNumber(
                DigitsValue(SubSeq(all.source, all.start + 1, whole.current)),
                IF has_fraction
                THEN SubSeq(all.source, whole.current + 2, all.current)
                ELSE <<>>))

RECURSIVE IdentifierChomp(_)
IdentifierChomp(sc) ==
    IF IsAlpha(peek(sc)) \/ IsDigit(peek(sc))
    THEN IdentifierChomp(advance(sc)) ELSE sc

\* Scanner::identifier
identifier(sc) ==
    LET all == IdentifierChomp(sc)
    IN  add_token(all, IF Lexeme(all) \in DOMAIN keywords
                       THEN keywords[Lexeme(all)] ELSE "Identifier")

RECURSIVE CommentChomp(_)
\* the loop that skips a comment up to the end of the line
CommentChomp(sc) ==
    IF peek(sc) # NoChar /\ peek(sc) # "\n" THEN CommentChomp(advance(sc))
    ELSE sc

\* scan_tokens: one more turn of the loop is due
Scanning == phase = "scan" /\ ~is_at_end(scanner)
\* self.start = self.current; match self.advance()
ScanChar == scanner.source[scanner.current + 1]
Advanced == advance([scanner EXCEPT !.start = scanner.current])
ScanUnchanged ==
    UNCHANGED <<program, phase, exit_code, rstack, scopes, current_function,
                locals, ivars, pvars>>

ScanSingle ==
    /\ Scanning /\ ScanChar \in DOMAIN SingleCharTokens
    /\ scanner' = add_token(Advanced, SingleCharTokens[ScanChar])
    /\ UNCHANGED <<reported, scan_result>>
    /\ ScanUnchanged

ScanOperator ==
    /\ Scanning /\ ScanChar \in DOMAIN OperatorTokens
    /\ scanner' = IF match_(Advanced, "=")
                  THEN add_token(advance(Advanced), OperatorTokens[ScanChar][2])
                  ELSE add_token(Advanced, OperatorTokens[ScanChar][1])
    /\ UNCHANGED <<reported, scan_result>>
    /\ ScanUnchanged

ScanSlash ==
    /\ Scanning /\ ScanChar = "/"
    /\ scanner' = IF match_(Advanced, "/")
                  THEN CommentChomp(advance(Advanced))
                  ELSE add_token(Advanced, "Slash")
    /\ UNCHANGED <<reported, scan_result>>
    /\ ScanUnchanged

ScanBlank ==
    /\ Scanning /\ ScanChar \in {" ", "\r", "\t"}
    /\ scanner' = Advanced
    /\ UNCHANGED <<reported, scan_result>>
    /\ ScanUnchanged

ScanNewline ==
    /\ Scanning /\ ScanChar = "\n"
    /\ scanner' = [Advanced EXCEPT !.line_number = @ + 1]
    /\ UNCHANGED <<reported, scan_result>>
    /\ ScanUnchanged

ScanString ==
    /\ Scanning /\ ScanChar = "\""
    /\ scanner' = string(Advanced)
    /\ reported' = reported \o string_reports(Advanced)
    /\ UNCHANGED scan_result
    /\ ScanUnchanged

ScanDigit ==
    /\ Scanning /\ IsDigit(ScanChar)
    /\ scanner' = digit(Advanced)
    /\ UNCHANGED <<reported, scan_result>>
    /\ ScanUnchanged

ScanIdentifier ==
    /\ Scanning /\ IsAlpha(ScanChar)
    /\ scanner' = identifier(Advanced)
    /\ UNCHANGED <<reported, scan_result>>
    /\ ScanUnchanged

ScanUnexpected ==
    /\ Scanning
    /\ ScanChar \notin DOMAIN SingleCharTokens \cup DOMAIN OperatorTokens
                         \cup {"/", " ", "\r", "\t", "\n", "\""}
    /\ ~IsDigit(ScanChar) /\ ~IsAlpha(ScanChar)
    /\ scanner' = [Advanced EXCEPT !.had_error = TRUE]
    /\ reported' = Append(reported,
                     LexError(scanner.line_number, "Unexpected character."))
    /\ UNCHANGED scan_result
    /\ ScanUnchanged

\* scan_tokens after the loop: the Eof token and the Result
ScanFinish ==
    /\ phase = "scan" /\ is_at_end(scanner)
    /\ scanner' = add_token(scanner, "Eof")
    /\ scan_result' = IF scanner.had_error
                      THEN [returned |-> TRUE, ok |-> FALSE]
                      ELSE [returned |-> TRUE, ok |-> TRUE,
                            tokens |-> scanner'.tokens]
    /\ phase' = "scanned"
    /\ UNCHANGED <<program, exit_code, rvars, ivars, pvars>>

ScannerNext ==
    \/ ScanSingle \/ ScanOperator \/ ScanSlash \/ ScanBlank \/ ScanNewline
    \/ ScanString \/ ScanDigit \/ ScanIdentifier \/ ScanUnexpected
    \/ ScanFinish

\* the characters the sources are made of: one or two of every class
SourceChars == {"(", "!", "=", "/", " ", "\n", "\"", "1", ".", "o", "r", "@"}
Sources == UNION {[1..n -> SourceChars] : n \in 0..MaxSource}

(***************************************************************************)
(* Parser (parser.rs).  The parse functions are operators over the token   *)
(* list of `parser`: each takes the 0-based `current` it starts at and the *)
(* diagnostics printed so far, and gives [ok, node, cur, diags]: the       *)
(* Result, the Parser's `current` afterwards and the diagnostics printed.  *)
(***************************************************************************)
NoParser == [tokens |-> <<>>]

\* the most arguments of a call and parameters of a function without a
\* diagnostic
MaxArguments == 255
MaxParameters == 255

ParserNew(tokens) == [tokens |-> tokens, current |-> 0]

POk(node, cur, diags) == [ok |-> TRUE, node |-> node, cur |-> cur, diags |-> diags]
PErr(cur, diags) ==
    [ok |-> FALSE, panic |-> FALSE, cur |-> cur, diags |-> diags]
\* the parser panicked (an unwrap of None)
PPanic(cur, diags) ==
    [ok |-> FALSE, panic |-> TRUE, cur |-> cur, diags |-> diags]

\* print_error(token, message)
ParseDiag(token, message) ==
    [line |-> token.line,
     at |-> IF token.token_type = "Eof" THEN <<"e", "n", "d">> ELSE token.lexeme,
     message |-> message]

parser_peek(cur) == parser.tokens[cur + 1]
previous(cur) == parser.tokens[cur]
parser_is_at_end(cur) == parser_peek(cur).token_type = "Eof"
check(cur, token_type) ==
    ~parser_is_at_end(cur) /\ parser_peek(cur).token_type = token_type
\* Parser::advance: `current` afterwards
parser_advance(cur) == IF parser_is_at_end(cur) THEN cur ELSE cur + 1
\* Parser::advance ends with previous(): tokens.get(current - 1).unwrap()
\* panics when `current` is still 0
advance_panics(cur) == parser_advance(cur) = 0
\* Parser::match_: whether it advances (by one token)
parser_match(cur, types) == \E token_type \in types : check(cur, token_type)

consume(cur, token_type, message, diags) ==
    IF check(cur, token_type) THEN POk(parser_peek(cur), cur + 1, diags)
    ELSE PErr(cur, Append(diags, ParseDiag(parser_peek(cur), message)))

RECURSIVE synchronize_to_brace(_)
\* a synchronize that also stops in front of a closing brace
synchronize_to_brace(cur) ==
    IF parser_is_at_end(cur) THEN cur
    ELSE IF previous(cur).token_type = "Semicolon" THEN cur
    ELSE IF parser_peek(cur).token_type
              \in {"Class", "Fun", "Var", "For", "If", "While", "Print",
                   "Return", "RightBrace"}
         THEN cur
    ELSE synchronize_to_brace(parser_advance(cur))

RECURSIVE synchronize_loop(_)
\* Parser::_synchronize: the while loop
synchronize_loop(cur) ==
    IF parser_is_at_end(cur) THEN cur
    ELSE IF previous(cur).token_type = "Semicolon" THEN cur
    ELSE IF parser_peek(cur).token_type
              \in {"Class", "Fun", "Var", "For", "If", "While", "Print", "Return"}
         THEN cur
    ELSE synchronize_loop(parser_advance(cur))

\* a synchronize that goes back to the first token
synchronize_restart(cur) == 0

\* Parser::_synchronize
synchronize(cur) == synchronize_loop(parser_advance(cur))

\* the map_err of Parser::declaration: the error after _synchronize
synchronized(failed) ==
    IF failed.panic \/ advance_panics(failed.cur)
    THEN PPanic(failed.cur, failed.diags)
    ELSE PErr(synchronize(failed.cur), failed.diags)

\* or, and, equality, comparison, term, factor: the operators of each level
\* of left-associative binary expressions, loosest first
LevelOperators ==
    <<{"Or"}, {"And"}, {"BangEqual", "EqualEqual"},
      {"Greater", "GreaterEqual", "Less", "LessEqual"},
      {"Minus", "Plus"}, {"Star", "Slash"}>>
\* Expr::logical for `or` and `and`, Expr::binary for the others
LevelNode(level, left, operator, right) ==
    [t |-> IF level <= 2 THEN "Logical" ELSE "Binary",
     left |-> left, operator |-> operator, right |-> right]

LiteralTrue == [t |-> "True"]
LiteralFalse == [t |-> "False"]
LiteralNil == [t |-> "Nil"]

\* the value `next` makes of a result, with the result worked out once
Bind(result, next(_)) == CHOOSE made \in {next(r) : r \in {result}} : TRUE
\* `result?` followed by `next`: an Err is handed on as it is
AndThen(result, next(_)) ==
    CHOOSE made \in {IF r.ok THEN next(r) ELSE r : r \in {result}} : TRUE

RECURSIVE expression(_, _)
RECURSIVE assignment(_, _)
RECURSIVE binary_level(_, _, _)
RECURSIVE binary_loop(_, _)
RECURSIVE unary(_, _)
RECURSIVE call_loop(_)
RECURSIVE finish_call(_, _, _)
RECURSIVE arguments_turn(_)
RECURSIVE arguments_loop(_, _)
RECURSIVE primary(_, _)
RECURSIVE declaration(_, _)
RECURSIVE statement(_, _)
RECURSIVE block_loop(_, _, _)

\* Parser::primary
primary(cur, diags) ==
    IF parser_match(cur, {"False"})
    THEN POk([t |-> "Literal", value |-> LiteralFalse], cur + 1, diags)
    ELSE IF parser_match(cur, {"True"})
    THEN POk([t |-> "Literal", value |-> LiteralTrue], cur + 1, diags)
    ELSE IF parser_match(cur, {"Nil"})
    THEN POk([t |-> "Literal", value |-> LiteralNil], cur + 1, diags)
    ELSE IF parser_match(cur, {"Number", "String"})
    THEN POk([t |-> "Literal", value |-> parser_peek(cur).literal], cur + 1, diags)
    ELSE IF parser_match(cur, {"Identifier"})
    THEN POk([t |-> "Variable", name |-> parser_peek(cur)], cur + 1, diags)
    ELSE IF parser_match(cur, {"LeftParen"})
    THEN AndThen(expression(cur + 1, diags), LAMBDA expr :
         AndThen(consume(expr.cur, "RightParen", "Expect ')' after expression.",
                         expr.diags), LAMBDA paren :
         POk([t |-> "Grouping", expr |-> expr.node], paren.cur, paren.diags)))
    ELSE PErr(cur, Append(diags, ParseDiag(parser_peek(cur), "Expect expression.")))

LimitCheckLate(count, limit, cur, diags, message) ==
    IF count > limit THEN Append(diags, ParseDiag(parser_peek(cur), message))
    ELSE diags

\* the diagnostics after the check of the limit on arguments or parameters
LimitCheck(count, limit, cur, diags, message) ==
    IF count >= limit THEN Append(diags, ParseDiag(parser_peek(cur), message))
    ELSE diags

\* one more element of an argument or parameter list: whether a comma follows
\* it (`more`), which is then consumed
Pushed(list, element) ==
    IF parser_match(element.cur, {"Comma"})
    THEN [ok |-> TRUE, more |-> TRUE, cur |-> element.cur + 1,
          diags |-> element.diags, node |-> Append(list.node, element.node)]
    ELSE [ok |-> TRUE, more |-> FALSE, cur |-> element.cur,
          diags |-> element.diags, node |-> Append(list.node, element.node)]

\* an argument or parameter list before its loop
NoneYet(cur, diags) ==
    [ok |-> TRUE, more |-> TRUE, cur |-> cur, diags |-> diags, node |-> <<>>]

\* Parser::finish_call: one turn of the loop over the arguments
arguments_turn(args) ==
    IF ~args.ok \/ ~args.more THEN args
    ELSE AndThen(expression(args.cur,
                     LimitCheck(Len(args.node), MaxArguments, args.cur, args.diags,
                                "Can't have more than 255 arguments.")),
                 LAMBDA argument : Pushed(args, argument))

\* Parser::finish_call: `turns` turns of the loop over the arguments (a turn
\* after the loop has ended changes nothing)
arguments_loop(args, turns) ==
    IF turns = 0 THEN args
    ELSE IF turns = 1 THEN arguments_turn(args)
    ELSE Bind(arguments_loop(args, turns \div 2), LAMBDA half :
              arguments_loop(half, turns - (turns \div 2)))

\* Parser::finish_call, after the '(' of the call
finish_call(cur, diags, something) ==
    AndThen(IF check(cur, "RightParen") THEN POk(<<>>, cur, diags)
            ELSE arguments_loop(NoneYet(cur, diags), Len(parser.tokens)),
            LAMBDA arguments :
    AndThen(consume(arguments.cur, "RightParen", "Expect ')' after arguments.",
                    arguments.diags), LAMBDA paren :
    POk([t |-> "Call", callee |-> something, paren |-> paren.node,
         arguments |-> arguments.node], paren.cur, paren.diags)))

\* Parser::call: the loop over the argument lists that follow the primary
call_loop(expr) ==
    IF expr.ok /\ parser_match(expr.cur, {"LeftParen"})
    THEN Bind(finish_call(expr.cur + 1, expr.diags, expr.node),
              LAMBDA called : call_loop(called))
    ELSE expr

\* Parser::call
call(cur, diags) == Bind(primary(cur, diags), LAMBDA expr : call_loop(expr))

\* Parser::unary
unary(cur, diags) ==
    IF parser_match(cur, {"Bang", "Minus"})
    THEN AndThen(unary(cur + 1, diags), LAMBDA right :
         POk([t |-> "Unary", operator |-> parser_peek(cur), right |-> right.node],
             right.cur, right.diags))
    ELSE call(cur, diags)

\* the operand of a level: the next tighter level, unary for factor
operand(level, cur, diags) ==
    IF level = Len(LevelOperators) THEN unary(cur, diags)
    ELSE binary_level(level + 1, cur, diags)

\* the loop of or / and / equality / comparison / term / factor
binary_loop(level, expr) ==
    IF expr.ok /\ parser_match(expr.cur, LevelOperators[level])
    THEN AndThen(operand(level, expr.cur + 1, expr.diags), LAMBDA right :
         binary_loop(level,
             POk(LevelNode(level, expr.node, parser_peek(expr.cur), right.node),
                 right.cur, right.diags)))
    ELSE expr

\* Parser::or (level 1), and, equality, comparison, term, factor (level 6)
binary_level(level, cur, diags) ==
    Bind(operand(level, cur, diags), LAMBDA expr : binary_loop(level, expr))

\* Parser::assignment (the diagnostic's text also shows the target)
assignment(cur, diags) ==
    AndThen(binary_level(1, cur, diags), LAMBDA expr :
    IF ~parser_match(expr.cur, {"Equal"}) THEN expr
    ELSE AndThen(assignment(expr.cur + 1, expr.diags), LAMBDA value :
         IF expr.node.t = "Variable"
         THEN POk([t |-> "Assign", name |-> expr.node.name, value |-> value.node],
                  value.cur, value.diags)
         ELSE POk(expr.node, value.cur,
                  Append(value.diags,
                         ParseDiag(parser_peek(expr.cur),
                                   "Invalid assignment target")))))

\* Parser::expression
expression(cur, diags) == assignment(cur, diags)

\* Parser::expression_statement and print_statement, after the keyword
expression_then_semicolon(cur, diags, kind) ==
    AndThen(expression(cur, diags), LAMBDA expr :
    AndThen(consume(expr.cur, "Semicolon", "Expect ';' after value.", expr.diags),
            LAMBDA semicolon :
    POk([t |-> kind, expr |-> expr.node], semicolon.cur, semicolon.diags)))

expression_statement(cur, diags) ==
    expression_then_semicolon(cur, diags, "Expression")
print_statement(cur, diags) == expression_then_semicolon(cur, diags, "Print")

\* Parser::return_statement, after the keyword
return_statement(cur, diags) ==
    AndThen(IF check(cur, "Semicolon") THEN POk(NoExpr, cur, diags)
            ELSE expression(cur, diags), LAMBDA value :
    AndThen(consume(value.cur, "Semicolon", "Expect ';' after return value.",
                    value.diags), LAMBDA semicolon :
    POk([t |-> "Return", keyword |-> previous(cur), value |-> value.node],
        semicolon.cur, semicolon.diags)))

\* Parser::var_declaration, after the keyword
var_declaration(cur, diags) ==
    AndThen(consume(cur, "Identifier", "Expect variable name.", diags),
            LAMBDA name :
    AndThen(IF parser_match(name.cur, {"Equal"})
            THEN expression(name.cur + 1, name.diags)
            ELSE POk(NoExpr, name.cur, name.diags), LAMBDA initializer :
    AndThen(consume(initializer.cur, "Semicolon",
                    "Expect ';' after variable declaration.", initializer.diags),
            LAMBDA semicolon :
    POk([t |-> "Var", name |-> name.node, init |-> initializer.node],
        semicolon.cur, semicolon.diags))))

\* Parser::block: the loop over the declarations
block_loop(cur, diags, stmts) ==
    IF ~check(cur, "RightBrace") /\ ~parser_is_at_end(cur)
    THEN AndThen(declaration(cur, diags), LAMBDA stmt :
         block_loop(stmt.cur, stmt.diags, Append(stmts, stmt.node)))
    ELSE POk(stmts, cur, diags)

\* Parser::block, after the '{'
block(cur, diags) ==
    AndThen(block_loop(cur, diags, <<>>), LAMBDA stmts :
    AndThen(consume(stmts.cur, "RightBrace", "Expect '}' after block.",
                    stmts.diags), LAMBDA brace :
    POk(stmts.node, brace.cur, brace.diags)))

\* Parser::while_statement, after the keyword
while_statement(cur, diags) ==
    AndThen(consume(cur, "LeftParen", "Expect '(' after 'while'.", diags),
            LAMBDA open :
    AndThen(expression(open.cur, open.diags), LAMBDA condition :
    AndThen(consume(condition.cur, "RightParen", "Expect ')' after condition.",
                    condition.diags), LAMBDA close :
    AndThen(statement(close.cur, close.diags), LAMBDA body :
    POk([t |-> "While", cond |-> condition.node, body |-> body.node],
        body.cur, body.diags)))))

\* Parser::if_statement, after the keyword
if_statement(cur, diags) ==
    AndThen(consume(cur, "LeftParen", "Expect '(' after 'if'.", diags),
            LAMBDA open :
    AndThen(expression(open.cur, open.diags), LAMBDA condition :
    AndThen(consume(condition.cur, "RightParen",
                    "Expect ')' after if condition.", condition.diags),
            LAMBDA close :
    AndThen(statement(close.cur, close.diags), LAMBDA then_branch :
    AndThen(IF parser_match(then_branch.cur, {"Else"})
            THEN statement(then_branch.cur + 1, then_branch.diags)
            ELSE POk(NoStmt, then_branch.cur, then_branch.diags),
            LAMBDA else_branch :
    POk([t |-> "If", cond |-> condition.node, then_branch |-> then_branch.node,
         else_branch |-> else_branch.node],
        else_branch.cur, else_branch.diags))))))

\* Parser::for_statement: the while loop made of the clauses and the body
Desugared(initializer, condition, increment, body) ==
    LET with_increment ==
            IF increment.t = "None" THEN body
            ELSE [t |-> "Block",
                  statements |-> <<body, [t |-> "Expression", expr |-> increment]>>]
        loop == [t |-> "While",
                 cond |-> IF condition.t = "None"
                          THEN [t |-> "Literal", value |-> LiteralTrue]
                          ELSE condition,
                 body |-> with_increment]
    IN  IF initializer.t = "None" THEN loop
        ELSE [t |-> "Block", statements |-> <<initializer, loop>>]

\* Parser::for_statement, after the keyword
for_statement(cur, diags) ==
    AndThen(consume(cur, "LeftParen", "Expect '(' after 'for'.", diags),
            LAMBDA open :
    AndThen(IF parser_match(open.cur, {"Semicolon"})
            THEN POk(NoStmt, open.cur + 1, open.diags)
            ELSE IF parser_match(open.cur, {"Var"})
            THEN var_declaration(open.cur + 1, open.diags)
            ELSE expression_statement(open.cur, open.diags),
            LAMBDA initializer :
    AndThen(IF check(initializer.cur, "Semicolon")
            THEN POk(NoExpr, initializer.cur, initializer.diags)
            ELSE expression(initializer.cur, initializer.diags),
            LAMBDA condition :
    AndThen(consume(condition.cur, "Semicolon",
                    "Expect ';' after loop condition.", condition.diags),
            LAMBDA semicolon :
    AndThen(IF check(semicolon.cur, "Semicolon")
            THEN POk(NoExpr, semicolon.cur, semicolon.diags)
            ELSE expression(semicolon.cur, semicolon.diags), LAMBDA increment :
    AndThen(consume(increment.cur, "RightParen",
                    "Expect ')' after for clauses.", increment.diags),
            LAMBDA close :
    AndThen(statement(close.cur, close.diags), LAMBDA body :
    POk(Desugared(initializer.node, condition.node, increment.node, body.node),
        body.cur, body.diags))))))))

\* Parser::statement
statement(cur, diags) ==
    IF parser_match(cur, {"For"}) THEN for_statement(cur + 1, diags)
    ELSE IF parser_match(cur, {"If"}) THEN if_statement(cur + 1, diags)
    ELSE IF parser_match(cur, {"Print"}) THEN print_statement(cur + 1, diags)
    ELSE IF parser_match(cur, {"Return"}) THEN return_statement(cur + 1, diags)
    ELSE IF parser_match(cur, {"While"}) THEN while_statement(cur + 1, diags)
    ELSE IF parser_match(cur, {"LeftBrace"})
    THEN AndThen(block(cur + 1, diags), LAMBDA stmts :
         POk([t |-> "Block", statements |-> stmts.node], stmts.cur, stmts.diags))
    ELSE expression_statement(cur, diags)

\* Parser::function: one turn of the loop over the parameters
parameters_turn(params) ==
    IF ~params.ok \/ ~params.more THEN params
    ELSE AndThen(consume(params.cur, "Identifier", "Expect parameter name.",
                     LimitCheck(Len(params.node), MaxParameters, params.cur,
                                params.diags,
                                "Can't have more than 255 parameters.")),
                 LAMBDA parameter : Pushed(params, parameter))

RECURSIVE parameters_loop(_, _)
\* Parser::function: `turns` turns of the loop over the parameters
parameters_loop(params, turns) ==
    IF turns = 0 THEN params
    ELSE IF turns = 1 THEN parameters_turn(params)
    ELSE Bind(parameters_loop(params, turns \div 2), LAMBDA half :
              parameters_loop(half, turns - (turns \div 2)))

\* Parser::function, after the keyword
function(cur, diags, kind) ==
    AndThen(consume(cur, "Identifier", "Expect " \o kind \o " name.", diags),
            LAMBDA name :
    AndThen(consume(name.cur, "LeftParen",
                    "Expect '(' after " \o kind \o " name.", name.diags),
            LAMBDA open :
    AndThen(IF check(open.cur, "RightParen") THEN POk(<<>>, open.cur, open.diags)
            ELSE parameters_loop(NoneYet(open.cur, open.diags),
                                 Len(parser.tokens)), LAMBDA parameters :
    AndThen(consume(parameters.cur, "RightParen", "Expect ')' after parameters.",
                    parameters.diags), LAMBDA close :
    AndThen(consume(close.cur, "LeftBrace",
                    "Expect '{' before " \o kind \o " body.", close.diags),
            LAMBDA brace :
    AndThen(block(brace.cur, brace.diags), LAMBDA body :
    POk([t |-> "Function", name |-> name.node, params |-> parameters.node,
         body |-> body.node], body.cur, body.diags)))))))

\* Parser::declaration: an error synchronizes before it is handed on
declaration(cur, diags) ==
    Bind(IF parser_match(cur, {"Fun"}) THEN function(cur + 1, diags, "function")
         ELSE IF parser_match(cur, {"Var"}) THEN var_declaration(cur + 1, diags)
         ELSE statement(cur, diags), LAMBDA stmt :
         IF stmt.ok THEN stmt ELSE synchronized(stmt))

\* Parser::parse: one more turn of the loop is due
Parsing == phase = "parse" /\ ~parser_is_at_end(parser.current)
ParseUnchanged ==
    UNCHANGED <<program, exit_code, rstack, scopes, current_function, locals,
                ivars, svars>>

\* Parser::parse: a declaration is parsed and pushed
ParseDeclaration ==
    /\ Parsing
    /\ \E stmt \in {declaration(parser.current, <<>>)} :
           /\ stmt.ok
           /\ parser' = [parser EXCEPT !.current = stmt.cur]
           /\ parsed' = Append(parsed, stmt.node)
           /\ reported' = reported \o stmt.diags
    /\ UNCHANGED <<phase, parse_result>>
    /\ ParseUnchanged

\* Parser::parse: declaration() gave an Err, `.ok()?` returns None
ParseDeclarationFailed ==
    /\ Parsing
    /\ \E stmt \in {declaration(parser.current, <<>>)} :
           /\ ~stmt.ok
           /\ parser' = [parser EXCEPT !.current = stmt.cur]
           /\ reported' = reported \o stmt.diags
           /\ parse_result' = IF stmt.panic THEN NotReturned
                              ELSE [returned |-> TRUE, some |-> FALSE]
           /\ phase' = IF stmt.panic THEN "panicked" ELSE "parsed"
    /\ UNCHANGED parsed
    /\ ParseUnchanged

\* Parser::parse: the loop ends at Eof, Some(statements)
ParseFinish ==
    /\ phase = "parse" /\ parser_is_at_end(parser.current)
    /\ parse_result' = [returned |-> TRUE, some |-> TRUE,
                        statements |-> parsed]
    /\ phase' = "parsed"
    /\ UNCHANGED <<parser, parsed, reported>>
    /\ ParseUnchanged

ParserNext == ParseDeclaration \/ ParseDeclarationFailed \/ ParseFinish

\* the token the scanner makes of the usual text of a token type, on a line
TokenOf(token_type, text, line) ==
    [token_type |-> token_type, lexeme |-> text,
     literal |-> IF token_type = "Number"
                 THEN LiteralNumber(DigitsValue(text), <<>>) ELSE LiteralNone,
     line |-> line]

\* the tokens the short token lists are made of
TokenChoices ==
    {TokenOf("Identifier", <<"a">>, 1), TokenOf("Number", <<"1">>, 1),
     TokenOf("Equal", <<"=">>, 1), TokenOf("Semicolon", <<";">>, 1),
     TokenOf("LeftParen", <<"(">>, 1), TokenOf("RightParen", <<")">>, 1),
     TokenOf("Comma", <<",">>, 1), TokenOf("Minus", <<"-">>, 1),
     TokenOf("Print", <<"p", "r", "i", "n", "t">>, 1),
     TokenOf("Var", <<"v", "a", "r">>, 1),
     TokenOf("LeftBrace", <<"{">>, 1), TokenOf("RightBrace", <<"}">>, 1)}
EofToken == TokenOf("Eof", <<>>, 1)
ShortTokenLists ==
    {Append(tokens, EofToken) :
        tokens \in UNION {[1..n -> TokenChoices] : n \in 0..MaxTokens}}

\* f(a, a, ..., a) with n arguments, the i-th of them on line i, as tokens
\* without the Eof
CallTokens(n) ==
    <<TokenOf("Identifier", <<"f">>, 1), TokenOf("LeftParen", <<"(">>, 1)>>
      \o [i \in 1..(IF n = 0 THEN 0 ELSE 2 * n - 1) |->
            IF i % 2 = 1 THEN TokenOf("Identifier", <<"a">>, (i + 1) \div 2)
            ELSE TokenOf("Comma", <<",">>, i \div 2)]
      \o <<TokenOf("RightParen", <<")">>, 1)>>

\* f(a, ..., a); with n arguments
CallStatement(n) ==
    CallTokens(n) \o <<TokenOf("Semicolon", <<";">>, 1), EofToken>>

\* fun f(a, ..., a) { } with n parameters
FunctionDeclaration(n) ==
    <<TokenOf("Fun", <<"f", "u", "n">>, 1)>> \o CallTokens(n)
      \o <<TokenOf("LeftBrace", <<"{">>, 1), TokenOf("RightBrace", <<"}">>, 1),
           EofToken>>

\* the numbers of arguments and parameters around the limit
LimitCases == {0, 1, 254, 255, 256, 257}

\* the usual text of the tokens of a type
UsualText(token_type) ==
    CASE token_type = "Identifier" -> <<"a">>
      [] token_type = "Number" -> <<"1">>
      [] token_type = "Equal" -> <<"=">>
      [] token_type = "Semicolon" -> <<";">>
      [] token_type = "LeftParen" -> <<"(">>
      [] token_type = "RightParen" -> <<")">>
      [] token_type = "LeftBrace" -> <<"{">>
      [] token_type = "RightBrace" -> <<"}">>
      [] token_type = "Print" -> <<"p", "r", "i", "n", "t">>
      [] token_type = "Var" -> <<"v", "a", "r">>
      [] token_type = "For" -> <<"f", "o", "r">>
      [] token_type = "Eof" -> <<>>

\* the tokens of the given types, all on line 1, with the Eof
TokensOf(types) ==
    [i \in DOMAIN types |-> TokenOf(types[i], UsualText(types[i]), 1)]
      \o <<EofToken>>

\* for (var a = 1; a; a = 1) print a;
ForFull ==
    TokensOf(<<"For", "LeftParen", "Var", "Identifier", "Equal", "Number",
               "Semicolon", "Identifier", "Semicolon", "Identifier", "Equal",
               "Number", "RightParen", "Print", "Identifier", "Semicolon">>)
\* for (; a; a = 1) print a;
ForNoInitializer ==
    TokensOf(<<"For", "LeftParen", "Semicolon", "Identifier", "Semicolon",
               "Identifier", "Equal", "Number", "RightParen", "Print",
               "Identifier", "Semicolon">>)
\* for (a = 1;; a = 1) print a;
ForNoCondition ==
    TokensOf(<<"For", "LeftParen", "Identifier", "Equal", "Number",
               "Semicolon", "Semicolon", "Identifier", "Equal", "Number",
               "RightParen", "Print", "Identifier", "Semicolon">>)
\* for (a = 1; a;) print a;
ForNoIncrement ==
    TokensOf(<<"For", "LeftParen", "Identifier", "Equal", "Number",
               "Semicolon", "Identifier", "Semicolon", "RightParen", "Print",
               "Identifier", "Semicolon">>)
\* for (;;) print 1;
ForBare ==
    TokensOf(<<"For", "LeftParen", "Semicolon", "Semicolon", "RightParen",
               "Print", "Number", "Semicolon">>)
ForTokenLists ==
    {ForFull, ForNoInitializer, ForNoCondition, ForNoIncrement, ForBare}

\* { { ) ; print 1; } } print 1;
NestedError ==
    TokensOf(<<"LeftBrace", "LeftBrace", "RightParen", "Semicolon", "Print",
               "Number", "Semicolon", "RightBrace", "RightBrace", "Print",
               "Number", "Semicolon">>)
\* { { a } }
NestedToEnd ==
    TokensOf(<<"LeftBrace", "LeftBrace", "Identifier", "RightBrace",
               "RightBrace">>)

\* print ); print 1; print );   1 = 2;   a = 1; )
LongTokenLists ==
    {<<TokenOf("Print", <<"p", "r", "i", "n", "t">>, 1),
       TokenOf("RightParen", <<")">>, 1), TokenOf("Semicolon", <<";">>, 1),
       TokenOf("Print", <<"p", "r", "i", "n", "t">>, 2),
       TokenOf("Number", <<"1">>, 2), TokenOf("Semicolon", <<";">>, 2),
       TokenOf("Print", <<"p", "r", "i", "n", "t">>, 3),
       TokenOf("RightParen", <<")">>, 3), TokenOf("Semicolon", <<";">>, 3),
       EofToken>>,
     <<TokenOf("Number", <<"1">>, 1), TokenOf("Equal", <<"=">>, 1),
       TokenOf("Number", <<"2">>, 1), TokenOf("Semicolon", <<";">>, 1),
       EofToken>>,
     <<TokenOf("Identifier", <<"a">>, 1), TokenOf("Equal", <<"=">>, 1),
       TokenOf("Number", <<"1">>, 1), TokenOf("Semicolon", <<";">>, 1),
       TokenOf("RightParen", <<")">>, 2), EofToken>>}

TokenLists ==
    ShortTokenLists \cup LongTokenLists \cup ForTokenLists
      \cup {NestedError, NestedToEnd}
      \cup {CallStatement(n) : n \in LimitCases}
      \cup {FunctionDeclaration(n) : n \in LimitCases}

(***************************************************************************)
(* The specification.                                                      *)
(***************************************************************************)
\* Interpreter::new and Resolver::new, before resolve_statements(program)
Init ==
    /\ program \in Programs
    /\ phase = "resolve"
    /\ rstack = StmtTasks(program)
    /\ scopes = <<>>
    /\ current_function = "None"
    /\ reported = <<>>
    /\ locals = EmptyMap
    /\ envs = <<[values |-> ("clock" :> ClockObject), enclosing |-> 0]>>
    /\ insts = <<>>
    /\ environment = globals
    /\ stack = <<>>
    /\ ctl = Idle
    /\ pc = 1
    /\ last = Idle
    /\ output = <<>>
    /\ exit_code = -1
    /\ scanner = NoScanner
    /\ scan_result = NotReturned
    /\ parser = NoParser
    /\ parsed = <<>>
    /\ parse_result = NotReturned

Next ==
    \/ ResolverNext
    \/ InterpreterNext
    \/ DriverResolved \/ DriverStatement \/ DriverStatementDone \/ DriverFinish

Spec == Init /\ [][Next]_vars

\* Scanner::new(source).scan_tokens() for every short source text
ScanInit ==
    /\ program = <<>>
    /\ phase = "scan"
    /\ rstack = <<>>
    /\ scopes = <<>>
    /\ current_function = "None"
    /\ reported = <<>>
    /\ locals = EmptyMap
    /\ envs = <<[values |-> ("clock" :> ClockObject), enclosing |-> 0]>>
    /\ insts = <<>>
    /\ environment = globals
    /\ stack = <<>>
    /\ ctl = Idle
    /\ pc = 1
    /\ last = Idle
    /\ output = <<>>
    /\ exit_code = -1
    /\ \E source \in Sources : scanner = ScannerNew(source)
    /\ scan_result = NotReturned
    /\ parser = NoParser
    /\ parsed = <<>>
    /\ parse_result = NotReturned

ScanSpec == ScanInit /\ [][ScannerNext]_vars

\* Parser::new(tokens).parse() for every token list
ParseInit ==
    /\ program = <<>>
    /\ phase = "parse"
    /\ rstack = <<>>
    /\ scopes = <<>>
    /\ current_function = "None"
    /\ reported = <<>>
    /\ locals = EmptyMap
    /\ envs = <<[values |-> ("clock" :> ClockObject), enclosing |-> 0]>>
    /\ insts = <<>>
    /\ environment = globals
    /\ stack = <<>>
    /\ ctl = Idle
    /\ pc = 1
    /\ last = Idle
    /\ output = <<>>
    /\ exit_code = -1
    /\ scanner = NoScanner
    /\ scan_result = NotReturned
    /\ \E tokens \in TokenLists : parser = ParserNew(tokens)
    /\ parsed = <<>>
    /\ parse_result = NotReturned

ParseSpec == ParseInit /\ [][ParserNext]_vars

\* parse() is one loop that runs to its return once it is called
ParseLiveSpec == ParseSpec /\ WF_vars(ParserNext)

(***************************************************************************)
(* Environment (environment.rs) on its own: chains of environments are     *)
(* built with from_enclosing and define, and assign / assign_at are        *)
(* applied to them.                                                        *)
(***************************************************************************)
MaxCells == 3
EnvNames == {"a", "b"}
Defined == Number(0)
Assigned == Number(1)
NoCall == [op |-> "none"]

EnvUnchanged ==
    UNCHANGED <<program, phase, rvars, insts, stack, ctl, pc, output,
                exit_code, fvars>>

\* Environment::from_enclosing(receiver), the new environment becomes the
\* receiver
EnvNest ==
    /\ phase = "environment"
    /\ Len(envs) < MaxCells
    /\ envs' = Append(envs, from_enclosing(environment))
    /\ environment' = Len(envs) + 1
    /\ last' = NoCall
    /\ EnvUnchanged

\* another holder of an environment makes it the receiver
EnvSwitch ==
    /\ phase = "environment"
    /\ \E id \in DOMAIN envs :
          /\ id # environment
          /\ environment' = id
    /\ last' = NoCall
    /\ UNCHANGED envs
    /\ EnvUnchanged

\* receiver.define(name, value)
EnvDefineCall ==
    /\ phase = "environment"
    /\ \E name \in EnvNames :
          envs' = EnvDefine(envs, environment, name, Defined)
    /\ last' = NoCall
    /\ UNCHANGED environment
    /\ EnvUnchanged

\* receiver.assign(name, value)
EnvAssignCall ==
    /\ phase = "environment"
    /\ \E lexeme \in EnvNames :
          LET name == Tok(lexeme, 1)
          IN  /\ envs' = EnvAssignCells(envs, environment, name, Assigned)
              /\ last' = [op |-> "assign", name |-> lexeme,
                          result |-> EnvAssignResult(envs, environment, name)]
    /\ UNCHANGED environment
    /\ EnvUnchanged

\* receiver.assign_at(distance, name, value), the distance within the chain
EnvAssignAtCall ==
    /\ phase = "environment"
    /\ \E lexeme \in EnvNames, distance \in 0 .. MaxCells :
          LET name == Tok(lexeme, 1)
          IN  /\ ancestor(envs, environment, distance) # 0
              /\ envs' = assign_at_cells(envs, environment, distance, name,
                                          Assigned)
              /\ last' = [op |-> "assign_at", name |-> lexeme,
                          distance |-> distance,
                          result |-> assign_at_result(envs, environment,
                                                      distance, name)]
    /\ UNCHANGED environment
    /\ EnvUnchanged

EnvNext ==
    EnvNest \/ EnvSwitch \/ EnvDefineCall \/ EnvAssignCall \/ EnvAssignAtCall

EnvInit ==
    /\ program = <<>>
    /\ phase = "environment"
    /\ rstack = <<>>
    /\ scopes = <<>>
    /\ current_function = "None"
    /\ reported = <<>>
    /\ locals = EmptyMap
    /\ envs = <<[values |-> ("clock" :> ClockObject), enclosing |-> 0]>>
    /\ insts = <<>>
    /\ environment = globals
    /\ stack = <<>>
    /\ ctl = Idle
    /\ pc = 1
    /\ last = NoCall
    /\ output = <<>>
    /\ exit_code = -1
    /\ scanner = NoScanner
    /\ scan_result = NotReturned
    /\ parser = NoParser
    /\ parsed = <<>>
    /\ parse_result = NotReturned

EnvSpec == EnvInit /\ [][EnvNext]_vars

(***************************************************************************)
(* Properties.                                                             *)
(***************************************************************************)
\* a statement has just handed an Err (Return or runtime error) or its last
\* Ok to the execute_block on top of the stack, which now returns
BlockReturns ==
    /\ Running /\ ctl.m = "sig" /\ stack # <<>> /\ Top.k = "Block"
    /\ (ctl.k # "Ok" \/ Top.statements = <<>>)

\* C1: execute_block leaves, on every exit path (all statements done, a
\* Return, a runtime error), the environment that was current before the
\* call, so when a top-level statement has finished or none is running the
\* current environment is the global one.
C1_BlockRestoresEnvironment ==
    /\ [][BlockReturns => environment' = Top.previous]_vars
    /\ []((phase = "run" /\ stack = <<>>) => environment = globals)

\* a runtime error raised below a function call, a loop and several blocks
\* has reached the top level
C1_Witness ==
    /\ Running /\ stack = <<>> /\ ctl.m = "sig" /\ ctl.k = "Error"
    /\ Len(envs) >= 4
    /\ environment = globals

\* the environment a resolved access of `name` through `expr` lands on has
\* the name: the chain has that many links and the cell holds the name
DepthReaches(expr, name) ==
    HasDepth(locals, expr) =>
        /\ ancestor(envs, environment, DepthOf(locals, expr)) # 0
        /\ name.lexeme \in
             DOMAIN envs[ancestor(envs, environment, DepthOf(locals, expr))].values

\* C2: whenever a Variable or Assign expression with a recorded depth d is
\* evaluated, d enclosing links from the current environment exist and lead
\* to an environment that contains the expression's name (for the read of a
\* variable and for the write of an assignment).
C2_DepthReachesBinding ==
    /\ IsExpr("Variable") => DepthReaches(ctl.e, ctl.e.name)
    /\ Returned("val", "Assign") => DepthReaches(Top.e.value, Top.e.name)

\* the Variable, Assign and This occurrences of the program
Occurrences ==
    {e \in ExprsOfStmts(program) : e.t \in {"Variable", "Assign", "This"}}

\* the expression whose key the interpreter looks up for an occurrence
\* (assign_variable looks up the value expression)
EntryExpr(q) == IF q.t = "Assign" THEN q.value ELSE q

\* the side-table entry of an occurrence, -1 when it has none
Entry(tbl, q) ==
    IF HasDepth(tbl, EntryExpr(q)) THEN DepthOf(tbl, EntryExpr(q)) ELSE -1

\* the resolver is about to record a depth for the occurrence p
Recording(p) ==
    /\ phase = "resolve" /\ rstack # <<>>
    /\ \/ RTask.k = "expr" /\ RTask.e.t \in {"Variable", "This"} /\ RTask.e = p
       \/ RTask.k = "assign_local" /\ RTask.e = p

\* C3: the depth table is keyed by expression identity: recording a depth
\* for one occurrence never creates, overwrites or removes the entry of a
\* different occurrence.
C3_RecordingTouchesOneEntry ==
    [][\A p \in Occurrences : \A q \in Occurrences :
          (Recording(p) /\ q.id # p.id) => Entry(locals', q) = Entry(locals, q)]_vars

\* C4: a Return signal handed to a block or a loop is passed on unchanged,
\* one handed to LoxFunction::call becomes the call's value, and no
\* top-level statement of a program for which the resolver printed no
\* diagnostic finishes with a Return signal (the resolver prints one for
\* every return outside a function).
C4_ReturnConsumedByCall ==
    /\ [][(Running /\ ctl.m = "sig" /\ ctl.k = "Return" /\ stack # <<>>
            /\ Top.k \in {"Block", "While"})
          => (ctl' = ctl /\ stack' = Tail(stack))]_vars
    /\ [][(Running /\ ctl.m = "sig" /\ ctl.k = "Return" /\ stack # <<>>
            /\ Top.k = "Call")
          => (ctl'.m = "val" /\ stack' = Tail(stack))]_vars
    /\ []((Running /\ ctl.m = "sig" /\ stack = <<>> /\ reported = <<>>)
            => ctl.k # "Return")

\* a Return signal raised inside nested blocks of a function body is on its
\* way through the enclosing loop
C4_Witness ==
    /\ Running /\ ctl.m = "sig" /\ ctl.k = "Return"
    /\ stack # <<>> /\ Top.k = "While"
    /\ \E i \in DOMAIN stack : stack[i].k = "Call"

\* LoxClass::call is about to return after its initializer returned a value
InitReturned ==
    Running /\ ctl.m = "val" /\ stack # <<>> /\ Top.k = "ClassCall"

\* the object `this` was bound to for the initializer of the class call on
\* top of the stack
BoundThis == envs[Top.instance.klass.methods["init"].closure].values["this"]

\* C5: calling a class with an init method returns the very instance that
\* init ran on: every field written through `this` inside init is on the
\* instance the call returns.
C5_InitFieldsOnResult ==
    [][InitReturned =>
         /\ ctl'.m = "val" /\ ctl'.v.t = "Instance"
         /\ \A f \in DOMAIN insts[BoundThis.ref].fields :
               /\ f \in DOMAIN insts'[ctl'.v.ref].fields
               /\ insts'[ctl'.v.ref].fields[f] = insts[BoundThis.ref].fields[f]]_vars

\* LoxClass::call is about to bind the initializer of the called class
BindsInit ==
    Dispatch({"Class"}) /\ HasMethod(Top.callee, "init")

\* C6: bind leaves the method's closure environment unchanged; the bound
\* method's closure is a new environment that encloses it and holds only
\* `this`.
C6_BindLeavesClosure ==
    [][BindsInit =>
         LET closure == Top.callee.methods["init"].closure
         IN  /\ envs'[closure] = envs[closure]
             /\ \A i \in DOMAIN stack' :
                   (stack'[i].k = "Call" /\ i <= Len(stack') - Len(stack) + 1)
                   => /\ stack'[i].closure # closure
                      /\ envs'[stack'[i].closure].enclosing = closure
                      /\ DOMAIN envs'[stack'[i].closure].values = {"this"}]_vars

\* the evaluator is about to call a callable with the wrong number of
\* arguments
ArityMismatch ==
    /\ Dispatch({"Clock", "Function", "Class"})
    /\ Len(Top.arguments) # arity(Top.callee)

\* C7: for every kind of callable a call with the wrong number of arguments
\* fails with "Expected N arguments but got M." and runs no callee code.
C7_ArityMismatchFails ==
    [][ArityMismatch =>
         /\ ctl' = CtlErr(RuntimeError(Top.paren,
                     "Expected " \o ToString(arity(Top.callee))
                       \o " arguments but got "
                       \o ToString(Len(Top.arguments)) \o "."))
         /\ stack' = Tail(stack)]_vars

\* the runtime error the evaluator is handing back, if any
IsError(c) == c.m = "err" \/ (c.m = "sig" /\ c.k = "Error")

\* C8: a runtime error handed to any suspended call (block, loop, function
\* call, class construction, expression) is handed on by it as the same
\* error, and at the top level it is the statement's result.
C8_ErrorReachesTopLevel ==
    /\ [][(Running /\ IsError(ctl) /\ stack # <<>>)
          => (IsError(ctl') /\ ctl'.err = ctl.err)]_vars
    /\ [][(Running /\ IsError(ctl) /\ stack = <<>>)
          => (IsError(last') /\ last'.err = ctl.err)]_vars

\* C9: a call of an initializer returns the value bound to `this` in its
\* closure, both when the body falls through and when it executes a return;
\* any other function returns the value of the Return signal, or nil when
\* the body falls through.
C9_InitializerReturnsThis ==
    [][(Returned("sig", "Call") /\ ctl.k \in {"Ok", "Return"}) =>
         IF Top.is_initializer
         THEN /\ "this" \in DOMAIN envs[Top.closure].values
              /\ ctl' = CtlVal(envs[Top.closure].values["this"])
         ELSE ctl' = CtlVal(IF ctl.k = "Return" THEN ctl.v ELSE Nil)]_vars

\* an initializer called through a property access has executed `return;`
\* and its call has handed the instance to the print statement
C9_Witness ==
    /\ program = ProgInitReturn /\ Running /\ pc = 5
    /\ ctl.m = "val" /\ ctl.v.t = "Instance"
    /\ stack # <<>> /\ Top.k = "Print"

\* property access on an instance finds no field but a method of the class
GetsMethod ==
    /\ Returned("val", "GetObject") /\ ctl.v.t = "Instance"
    /\ Top.name.lexeme \notin DOMAIN insts[ctl.v.ref].fields
    /\ HasMethod(insts[ctl.v.ref].klass, Top.name.lexeme)

\* C10: property access that finds a method returns the method bound to the
\* instance: a function whose closure maps `this` to that instance.
C10_GetBindsMethod ==
    [][GetsMethod =>
         /\ ctl'.m = "val" /\ ctl'.v.t = "Function"
         /\ "this" \in DOMAIN envs'[ctl'.v.closure].values
         /\ envs'[ctl'.v.closure].values["this"] = ctl.v]_vars

\* C11: once the resolver has printed a static diagnostic the program is
\* never evaluated and the run ends with exit code 65, and the resolver
\* walks on after a diagnostic: the three static errors of ProgStaticErrors
\* are all reported.
C11_StaticErrorsStopEvaluation ==
    /\ reported # <<>> => (phase # "run" /\ (phase = "done" => exit_code = 65))
    /\ (program = ProgStaticErrors /\ phase # "resolve") => Len(reported) = 3

\* the Eof tokens of a token list
EofTokens(tokens) == {i \in DOMAIN tokens : tokens[i].token_type = "Eof"}

\* C12: scan_tokens returns the error outcome exactly when it reported a
\* lexical error; otherwise it returns the tokens, with exactly one Eof
\* token, at the end; either way the whole input was scanned.
C12_ScanOutcome ==
    phase = "scanned" =>
        /\ scanner.current = Len(scanner.source)
        /\ ~scan_result.ok <=> reported # <<>>
        /\ scan_result.ok =>
              EofTokens(scan_result.tokens) = {Len(scan_result.tokens)}

RECURSIVE Newlines(_)
\* the number of newline characters of a text
Newlines(chars) ==
    IF chars = <<>> THEN 0
    ELSE (IF Head(chars) = "\n" THEN 1 ELSE 0) + Newlines(Tail(chars))

\* C13: the line of every token is 1 plus the number of newlines before its
\* first character (where the scanner stood when it began the token); the
\* Eof token carries 1 plus the number of newlines of the whole source.
C13_TokenLines ==
    [][(phase = "scan" /\ Len(scanner'.tokens) > Len(scanner.tokens)) =>
         scanner'.tokens[Len(scanner'.tokens)].line
           = 1 + Newlines(SubSeq(scanner.source, 1, scanner.current))]_vars

\* C14: Parser.parse returns "no program" whenever a parse diagnostic was
\* reported during the parse, the diagnostics that raise no ParseError
\* (invalid assignment target, more than 255 arguments or parameters)
\* included.
C14_DiagnosticMeansNoProgram ==
    (phase = "parsed" /\ reported # <<>>) => ~parse_result.some

\* the token list `print ); print 1; print );`: declarations with a syntax
\* error on lines 1 and 3
TwoErrors ==
    \E tokens \in LongTokenLists : Len(tokens) = 10 /\ parser.tokens = tokens

\* C15: after a parse error in a top-level declaration the parser
\* synchronizes and parses the following declarations in the same parse()
\* call: parse() returns only at the end of the tokens, and the program with
\* syntax errors in two separate declarations has both of them reported.
C15_ParseGoesOnAfterError ==
    phase = "parsed" =>
        /\ parser_is_at_end(parser.current)
        /\ TwoErrors => {reported[i].line : i \in DOMAIN reported} = {1, 3}

\* the number of arguments of the parsed call, or of parameters of the
\* parsed function declaration
ListLength(stmt) ==
    IF stmt.t = "Function" THEN Len(stmt.params) ELSE Len(stmt.expr.arguments)

\* C16: a call with at most 255 arguments and a function declaration with at
\* most 255 parameters give no diagnostic; with more, the 256th and each
\* later one gives the "Can't have more than 255 ..." diagnostic, no
\* ParseError is raised, every argument or parameter up to the closing
\* parenthesis is consumed and the node holds all of them.
C16_LimitOfArguments ==
    \A n \in LimitCases :
        (phase = "parsed"
           /\ parser.tokens \in {CallStatement(n), FunctionDeclaration(n)}) =>
            /\ parse_result.some
            /\ parser_is_at_end(parser.current)
            /\ Len(parse_result.statements) = 1
            /\ ListLength(parse_result.statements[1]) = n
            /\ Len(reported) = (IF n > 255 THEN n - 255 ELSE 0)
            /\ \A i \in DOMAIN reported :
                  /\ reported[i].line = 255 + i
                  /\ reported[i].message \in
                        {"Can't have more than 255 arguments.",
                         "Can't have more than 255 parameters."}

\* the 256-argument call and the 256-parameter declaration have been parsed
\* with one diagnostic each
C16_Witness ==
    /\ phase = "parsed"
    /\ parser.tokens = CallStatement(256)
    /\ Len(reported) = 1
    /\ parse_result.some
    /\ Len(parse_result.statements[1].expr.arguments) = 256

\* what the resolver prints about a name declared again in its scope
Already(name) == "Already a variable called '" \o name \o "' in this scope."

\* C17: the resolver reports a name declared a second time in the same
\* non-global scope (a parameter named twice and a local named like a
\* parameter included) and a local variable read in its own initializer;
\* it reports neither a redeclaration at global scope nor the shadowing of a
\* name in a nested scope.
C17_RedeclarationReported ==
    /\ [](program = ProgDeclarations /\ phase # "resolve" =>
            reported = <<Already("p"), Already("p"),
                         "Can't read local variable in its own initializer.",
                         Already("d")>>)
    /\ [][(phase = "resolve" /\ scopes = <<>> /\ ~RIsStmt("Return")
             /\ ~RIsTask("function")) => reported' = reported]_vars

C17_Witness ==
    /\ program = ProgDeclarations
    /\ phase = "run"
    /\ Len(reported) = 4

\* the resolver is inside the body of a function or method
InFunctionBody == \E i \in DOMAIN rstack : rstack[i].k = "end_function"

\* C18: the resolver reports a `return` exactly when it is not inside any
\* function or method body: a `return` after a completed function
\* declaration at top level is reported, a `return` nested in blocks, ifs or
\* loops inside a function is not.
C18_ReturnOutsideFunctionReported ==
    /\ [][RIsStmt("Return") =>
            IF InFunctionBody THEN reported' = reported
            ELSE reported' = Append(reported, "Can't return from top-level code.")
         ]_vars
    /\ [](program = ProgReturns /\ phase # "resolve" =>
            reported = <<"Can't return from top-level code.">>)

C18_Witness ==
    /\ program = ProgReturns
    /\ phase = "run"
    /\ reported = <<"Can't return from top-level code.">>

\* C19: the resolver treats a method named `init` as an initializer: a
\* `return` with a value inside `init` is reported, a bare `return` inside
\* `init` and a `return` with a value inside another method are not.
C19_InitializerReturnReported ==
    (program = ProgInitValue /\ phase # "resolve") => Len(reported) = 1

\* C20: the free variable of a function is bound to the scope that defines
\* it at the function's definition: a variable of the same name declared in
\* the block afterwards does not capture it, the program prints `global`
\* twice.
C20_FreeVariableKeepsBinding ==
    program = ProgShowA =>
        /\ \A i \in DOMAIN output : output[i] = "global"
        /\ phase = "done" => (Len(output) = 2 /\ exit_code = 0)

C20_Witness ==
    /\ program = ProgShowA
    /\ phase = "done"
    /\ output = <<"global", "global">>

\* the output so far is the beginning of the lines the program is to print
PrintsOnly(lines) ==
    /\ Len(output) <= Len(lines)
    /\ \A i \in DOMAIN output : output[i] = lines[i]
    /\ phase = "done" => (output = lines /\ exit_code = 0)

\* C21: a closure shares the environment it captured: the counter returned
\* by makeCounter() counts 1, 2, 3 over successive calls, and the counters
\* of two makeCounter() calls hold different environments and count
\* independently.
C21_ClosureSharesEnvironment ==
    program = ProgCounter =>
        /\ PrintsOnly(<<"1", "2", "1", "3">>)
        /\ {"c1", "c2"} \subseteq DOMAIN envs[globals].values =>
              LET c1 == envs[globals].values["c1"]
                  c2 == envs[globals].values["c2"]
              IN  /\ c1.closure # c2.closure
                  /\ Len(output) = 2 =>
                        /\ envs[c1.closure].values["i"] = Number(2)
                        /\ envs[c2.closure].values["i"] \in {Number(0), Number(1)}

C21_Witness ==
    /\ program = ProgCounter
    /\ phase = "done"
    /\ output = <<"1", "2", "1", "3">>
    /\ envs[envs[globals].values["c1"].closure].values["i"] = Number(3)
    /\ envs[envs[globals].values["c2"].closure].values["i"] = Number(1)

\* C23: `or` evaluates its right operand only when the left one is falsy,
\* `and` only when the left one is truthy, and the result is the value of
\* the last operand evaluated: the program prints x, 2, false, true, nil,
\* then 0 because the skipped assignments never happen, then -5.
C23_LogicalShortCircuits ==
    program = ProgLogical =>
        /\ PrintsOnly(<<"x", "2", "false", "true", "nil", "0", "-5">>)
        /\ "a" \in DOMAIN envs[globals].values =>
              envs[globals].values["a"] \notin {Number(1), Number(2)}

C23_Witness ==
    /\ program = ProgLogical
    /\ phase = "done"
    /\ output = <<"x", "2", "false", "true", "nil", "0", "-5">>
    /\ envs[globals].values["a"] = Number(0 - 5)

\* C24: a function value is equal to itself, two different functions are
\* unequal and values of different variants are unequal: the program prints
\* true, false, true, false, false, false, true, true.
C24_FunctionEqualsItself ==
    program = ProgEquality =>
        PrintsOnly(<<"true", "false", "true", "false", "false", "false",
                     "true", "true">>)

\* C25: a comparison of two numbers yields a boolean and a comparison of
\* any other pair of operands, two strings included, is a runtime error:
\* the first program prints four booleans and fails on `"a" < "b"`, the
\* second fails at once.
C25_ComparisonNeedsNumbers ==
    /\ (program = ProgCompareStrings /\ phase = "done") =>
            /\ output = <<"true", "false", "true", "true">>
            /\ exit_code = 70
    /\ (program = ProgCompareMixed /\ phase = "done") =>
            /\ output = <<>>
            /\ exit_code = 70

RECURSIVE Chain(_, _)
\* the environments reached from one by following the enclosing links
Chain(es, id) ==
    IF id = 0 THEN <<>> ELSE <<id>> \o Chain(es, es[id].enclosing)

\* the cells are those of `before` but for the value of one name in one cell
OnlyChanged(before, after, id, name, v) ==
    /\ Len(after) = Len(before)
    /\ \A other \in DOMAIN before :
          /\ after[other].enclosing = before[other].enclosing
          /\ DOMAIN after[other].values = DOMAIN before[other].values
          /\ \A n \in DOMAIN before[other].values :
                after[other].values[n] =
                    IF other = id /\ n = name THEN v
                    ELSE before[other].values[n]

\* C22: assign changes the binding of the name in the nearest environment
\* of the receiver's chain that has one and nothing else, it creates no
\* binding, and when no environment of the chain has the name it fails with
\* an undefined-variable error and changes nothing.
C22_AssignChangesNearestBinding ==
    [][last'.op = "assign" =>
        LET chain == Chain(envs, environment)
            holders == {i \in DOMAIN chain :
                          last'.name \in DOMAIN envs[chain[i]].values}
        IN  IF holders = {}
            THEN /\ envs' = envs
                 /\ ~last'.result.ok
                 /\ last'.result.err.message =
                        "Undefined variable: '" \o last'.name \o "'."
            ELSE LET nearest == CHOOSE i \in holders :
                                    \A j \in holders : i <= j
                 IN  /\ last'.result.ok
                     /\ OnlyChanged(envs, envs', chain[nearest], last'.name,
                                     Assigned)]_vars

\* an assign that skipped a nearer environment without the name and changed
\* an outer one while another name stayed as it was, and a failed assign
C22_Witness ==
    /\ last.op = "assign" /\ last.name = "a" /\ last.result.ok
    /\ Len(envs) = 3 /\ environment = 3
    /\ envs[3].enclosing = 2 /\ envs[2].enclosing = 1
    /\ DOMAIN envs[3].values = {"b"}
    /\ envs[2].values = ("a" :> Assigned)
    /\ "a" \in DOMAIN envs[1].values /\ envs[1].values["a"] = Defined

C22_WitnessFailure ==
    /\ last.op = "assign" /\ ~last.result.ok
    /\ Len(envs) = 2

\* C28: assign_at on a target environment without the name returns an error
\* and leaves every environment as it was; on a target with the name it
\* changes that binding alone.
C28_AssignAtLeavesTargetUnchanged ==
    [][last'.op = "assign_at" =>
        LET chain == Chain(envs, environment)
            target == chain[last'.distance + 1]
        IN  IF last'.name \in DOMAIN envs[target].values
            THEN /\ last'.result.ok
                 /\ OnlyChanged(envs, envs', target, last'.name, Assigned)
            ELSE /\ ~last'.result.ok
                 /\ envs' = envs]_vars

\* the index of the Eof token, counted from 0 as the cursor is
EofIndex == Len(parser.tokens) - 1

\* the most tokens between a cursor position and Eof for which synchronize
\* is worked out from that position
MaxSkip == 16

\* where synchronize may return: behind a `;`, in front of a keyword that
\* begins a statement, or in front of Eof
SynchronizedAt(cur) ==
    \/ cur >= 1 /\ parser.tokens[cur].token_type = "Semicolon"
    \/ parser.tokens[cur + 1].token_type
          \in {"Class", "Fun", "Var", "For", "If", "While", "Print", "Return",
               "Eof"}

\* C26: from every cursor position near enough to Eof synchronize returns, with the cursor not
\* before where it was and not past Eof, behind a `;` or in front of a
\* statement keyword or of Eof; that also holds for the cursor after an
\* error in nested blocks, where each enclosing declaration synchronizes.
C26_SynchronizeStopsAtBoundary ==
    phase \in {"parse", "parsed"} =>
        /\ \A cur \in 0 .. EofIndex :
              (EofIndex - cur <= MaxSkip /\ ~advance_panics(cur)) =>
                 \E stop \in {synchronize(cur)} :
                    /\ cur <= stop /\ stop <= EofIndex
                    /\ SynchronizedAt(stop)
        /\ (phase = "parsed" /\ ~parse_result.some) =>
              /\ parser.current <= EofIndex
              /\ SynchronizedAt(parser.current)

\* the error in the inner block of `{ { ) ; print 1; } } print 1;` was
\* synchronized three times, up to the `print` behind the blocks
C26_Witness ==
    /\ phase = "parsed"
    /\ parser.tokens = NestedError
    /\ ~parse_result.some
    /\ parser.current = 9

\* C27: a for statement parses to the desugared form: a while loop whose
\* condition is the literal true when the condition is omitted, whose body
\* is the bare body when the step is omitted and a block of body and step
\* otherwise, in a block behind the initializer unless that is omitted.
C27_ForDesugars ==
    (phase = "parsed" /\ parser.tokens \in ForTokenLists) =>
        /\ parse_result.some
        /\ reported = <<>>
        /\ Len(parse_result.statements) = 1
        /\ LET stmt == parse_result.statements[1]
               has_initializer ==
                   parser.tokens \notin {ForNoInitializer, ForBare}
               has_condition == parser.tokens \notin {ForNoCondition, ForBare}
               has_increment == parser.tokens \notin {ForNoIncrement, ForBare}
               loop == IF has_initializer THEN stmt.statements[2] ELSE stmt
           IN  /\ has_initializer =>
                     /\ stmt.t = "Block" /\ Len(stmt.statements) = 2
                     /\ stmt.statements[1].t \in {"Var", "Expression"}
               /\ loop.t = "While"
               /\ IF has_condition THEN loop.cond.t = "Variable"
                  ELSE loop.cond = [t |-> "Literal", value |-> LiteralTrue]
               /\ IF has_increment
                  THEN /\ loop.body.t = "Block"
                       /\ Len(loop.body.statements) = 2
                       /\ loop.body.statements[1].t = "Print"
                       /\ loop.body.statements[2].t = "Expression"
                       /\ loop.body.statements[2].expr.t = "Assign"
                  ELSE loop.body.t = "Print"

\* C30: parse() returns for every token list that ends in Eof; the cursor
\* never goes back and never passes the Eof token, a declaration that is
\* parsed moves it forward, and no read of previous() happens at cursor 0.
C30_ParseTerminates ==
    /\ <>(phase = "parsed")
    /\ [](phase # "panicked")
    /\ [](parser.current \in 0 .. EofIndex)
    /\ [][/\ parser'.current >= parser.current
          /\ Len(parsed') > Len(parsed) => parser'.current > parser.current
          /\ parser'.tokens = parser.tokens]_vars

\* parse() has returned after an error at the very first token, `)`: the
\* advance of synchronize moved the cursor to 1 before previous() was read
C30_Witness ==
    /\ phase = "parsed"
    /\ Len(parser.tokens) = 2
    /\ parser.tokens[1].token_type = "RightParen"
    /\ parser.current = 1
    /\ ~parse_result.some

\* the blocks and function bodies the resolver is inside of: those whose
\* end is still to come
OpenConstructs ==
    {i \in DOMAIN rstack : rstack[i].k \in {"end_scope", "end_function"}}

\* C29: while the resolver runs, the scope stack is as deep as the number of
\* blocks and function bodies around the statement being resolved; once
\* resolve_statements has returned the stack is empty and the
\* current-function marker is back at its first value.
C29_ScopesBalanced ==
    /\ phase = "resolve" => Len(scopes) = Cardinality(OpenConstructs)
    /\ (phase # "resolve" \/ rstack = <<>>) =>
            (scopes = <<>> /\ current_function = "None")

\* the resolver is inside the body of `count` inside the body of
\* `makeCounter`
C29_Witness ==
    /\ program = ProgCounter
    /\ phase = "resolve"
    /\ Len(scopes) = 2
    /\ current_function = "Function"
    /\ reported = <<>>

\* the resolver has left both function bodies of that program
C29_WitnessAfter ==
    /\ program = ProgCounter
    /\ phase = "run"
    /\ scopes = <<>>

====
